---- MODULE Spec2Model ----
(***************************************************************************)
(* Model of the lattice reduction cost estimator                           *)
(* (lattice-estimator/src/reduction.rs).                                   *)
(*                                                                         *)
(* Every function of the estimator is a pure function over f64 and usize.  *)
(* An f64 is modelled as a binary floating-point number with a sign, a     *)
(* normalised significand of MantBits bits and an exponent, rounded to     *)
(* nearest, with the exponent range of f64 (overflow to infinity at        *)
(* 2^1024, flush to zero below 2^-1074) and with infinities and NaN.       *)
(* ln, log2, powf and exp are computed on that representation.             *)
(*                                                                         *)
(* The state machine is a caller of the library: it is idle, calls one     *)
(* function on inputs drawn from bounded sets, holds the returned value,   *)
(* and drops it again.                                                     *)
(***************************************************************************)
EXTENDS Integers, Sequences, FiniteSets, TLC

VARIABLES pc, call, ret

vars == <<pc, call, ret>>

(***************************************************************************)
(* f64                                                                     *)
(***************************************************************************)
MantBits == 30
F64MaxExp == 1024
F64MinExp == -1074

HalfP == 2^(MantBits - 1)
HalfBits == MantBits \div 2
Split == 2^HalfBits

FZero == [k |-> "num", s |-> 1, m |-> 0, e |-> 0]
FInf(sg) == [k |-> "inf", s |-> sg, m |-> 0, e |-> 0]
FNaN == [k |-> "nan", s |-> 1, m |-> 0, e |-> 0]

IsZero(a) == a.k = "num" /\ a.m = 0
IsFinite(a) == a.k = "num"

RECURSIVE BitLen(_)
BitLen(n) == IF n = 0 THEN 0 ELSE 1 + BitLen(n \div 2)

\* sg * m * 2^e for a normalised m, within the exponent range of f64
Pack(sg, m, e) ==
    IF e + MantBits > F64MaxExp THEN FInf(sg)
    ELSE IF e + MantBits - 1 < F64MinExp THEN FZero
    ELSE [k |-> "num", s |-> sg, m |-> m, e |-> e]

\* m of L bits brought to MantBits bits, rounding to nearest
NormLen(sg, m, e, L) ==
    IF L <= MantBits THEN Pack(sg, m * 2^(MantBits - L), e - (MantBits - L))
    ELSE IF (m \div 2) + (m % 2) = 2 * HalfP THEN Pack(sg, HalfP, e + 2)
    ELSE Pack(sg, (m \div 2) + (m % 2), e + 1)

\* The f64 nearest to sg * m * 2^e, for 0 <= m < 2^31.
Norm(sg, m, e) == IF m = 0 THEN FZero ELSE NormLen(sg, m, e, BitLen(m))

\* round(x * y / 2^sh) for sh in {MantBits - 1, MantBits} and x, y < 2^MantBits
MulShift(x, y, sh) ==
    LET xh == x \div Split
        xl == x % Split
        yh == y \div Split
        yl == y % Split
        lo == (xl * yl + 2^(sh - 1)) \div Split
        mid == (xh * yl + xl * yh + lo) \div 2^(sh - HalfBits)
    IN  xh * yh * 2^(MantBits - sh) + mid

\* floor(x * y / 2^MantBits)
MulHi(x, y) ==
    LET xh == x \div Split
        xl == x % Split
        yh == y \div Split
        yl == y % Split
    IN  xh * yh + ((xh * yl + xl * yh + ((xl * yl) \div Split)) \div Split)

\* the shift that leaves MantBits bits of the product x * y
MulBits(x, y) == IF MulHi(x, y) >= HalfP THEN MantBits ELSE MantBits - 1

FromInt(n) == Norm(IF n < 0 THEN -1 ELSE 1, IF n < 0 THEN -n ELSE n, 0)

FNeg(a) == IF a.k = "nan" \/ IsZero(a) THEN a ELSE [a EXCEPT !.s = -a.s]

FMul(a, b) ==
    IF a.k = "nan" \/ b.k = "nan" THEN FNaN
    ELSE IF a.k = "inf" \/ b.k = "inf"
         THEN (IF IsZero(a) \/ IsZero(b) THEN FNaN ELSE FInf(a.s * b.s))
    ELSE IF a.m = 0 \/ b.m = 0 THEN FZero
    ELSE Norm(a.s * b.s, MulShift(a.m, b.m, MulBits(a.m, b.m)), a.e + b.e + MulBits(a.m, b.m))

\* |a| >= |b|, for finite a and b
MagGe(a, b) ==
    IF b.m = 0 THEN TRUE
    ELSE IF a.m = 0 THEN FALSE
    ELSE a.e > b.e \/ (a.e = b.e /\ a.m >= b.m)

\* big + small for |big| >= |small|, sh the difference of their exponents
AddOrd(big, small, sh) ==
    IF small.m = 0 \/ sh > MantBits THEN big
    ELSE Norm(big.s,
              IF big.s = small.s
              THEN big.m + ((small.m + ((2^sh) \div 2)) \div (2^sh))
              ELSE 2 * big.m - ((2 * small.m) \div (2^sh)),
              IF big.s = small.s THEN big.e ELSE big.e - 1)

AddNum(a, b) ==
    IF MagGe(a, b) THEN AddOrd(a, b, a.e - b.e) ELSE AddOrd(b, a, b.e - a.e)

FAdd(a, b) ==
    IF a.k = "nan" \/ b.k = "nan" THEN FNaN
    ELSE IF a.k = "inf" THEN (IF b.k = "inf" /\ b.s # a.s THEN FNaN ELSE a)
    ELSE IF b.k = "inf" THEN b
    ELSE AddNum(a, b)

FSub(a, b) == FAdd(a, FNeg(b))

RECURSIVE DivBits(_, _, _, _)
DivBits(r, d, n, q) ==
    IF n = 0 THEN q
    ELSE IF 2 * r >= d THEN DivBits(2 * r - d, d, n - 1, 2 * q + 1)
         ELSE DivBits(2 * r, d, n - 1, 2 * q)

\* the number of quotient bits after the leading one
DivLen(x, y) == IF x \div y = 0 THEN MantBits + 1 ELSE MantBits

FDiv(a, b) ==
    IF a.k = "nan" \/ b.k = "nan" THEN FNaN
    ELSE IF a.k = "inf" THEN (IF b.k = "inf" THEN FNaN ELSE FInf(a.s * b.s))
    ELSE IF b.k = "inf" THEN FZero
    ELSE IF b.m = 0 THEN (IF a.m = 0 THEN FNaN ELSE FInf(a.s))
    ELSE IF a.m = 0 THEN FZero
    ELSE Norm(a.s * b.s,
              DivBits(a.m % b.m, b.m, DivLen(a.m, b.m), a.m \div b.m),
              a.e - b.e - DivLen(a.m, b.m))

\* -1, 0 or 1; 2 when a or b is NaN (partial_cmp gives None)
FCmp(a, b) ==
    IF a.k = "nan" \/ b.k = "nan" THEN 2
    ELSE IF a.k = "inf" \/ b.k = "inf"
         THEN (IF a.k = b.k /\ a.s = b.s THEN 0
               ELSE IF a.k = "inf" THEN a.s ELSE -b.s)
    ELSE IF a.m = 0 /\ b.m = 0 THEN 0
    ELSE IF a.m = 0 THEN -b.s
    ELSE IF b.m = 0 THEN a.s
    ELSE IF a.s # b.s THEN a.s
    ELSE IF a.e = b.e /\ a.m = b.m THEN 0
    ELSE IF MagGe(a, b) THEN a.s ELSE -a.s

FLt(a, b) == FCmp(a, b) = -1
FLe(a, b) == FCmp(a, b) \in {-1, 0}
FGt(a, b) == FCmp(a, b) = 1
FGe(a, b) == FCmp(a, b) \in {0, 1}
FMax(a, b) == IF a.k = "nan" THEN b ELSE IF b.k = "nan" THEN a ELSE IF FGe(a, b) THEN a ELSE b
FAbs(a) == IF a.k = "nan" THEN a ELSE [a EXCEPT !.s = 1]

\* the decimal literal n / 10^digits
FDec(n, digits) == FDiv(FromInt(n), FromInt(10^digits))

\* floor of a finite value of magnitude below 2^31, as an integer
FloorInt(x) ==
    IF x.m = 0 THEN 0
    ELSE IF x.e >= 0 THEN x.s * x.m * 2^x.e
    ELSE IF -x.e > MantBits THEN (IF x.s = 1 THEN 0 ELSE -1)
    ELSE IF x.s = 1 THEN x.m \div 2^(-x.e)
    ELSE IF x.m % 2^(-x.e) = 0 THEN -(x.m \div 2^(-x.e))
    ELSE -(x.m \div 2^(-x.e)) - 1

FFloor(x) == IF x.k # "num" \/ x.e >= 0 THEN x ELSE FromInt(FloorInt(x))
FCeil(x) == FNeg(FFloor(FNeg(x)))

RECURSIVE LogBits(_, _, _)
LogBits(y, n, acc) ==
    IF n = 0 THEN acc
    ELSE LET sq == MulHi(y, y)
         IN  IF sq >= HalfP THEN LogBits(sq, n - 1, 2 * acc + 1)
             ELSE LogBits(2 * sq, n - 1, 2 * acc)

FLog2(x) ==
    IF x.k = "nan" THEN FNaN
    ELSE IF x.k = "inf" THEN (IF x.s = 1 THEN x ELSE FNaN)
    ELSE IF x.m = 0 THEN FInf(-1)
    ELSE IF x.s = -1 THEN FNaN
    ELSE FAdd(FromInt(x.e + MantBits - 1), Norm(1, LogBits(x.m, MantBits, 0), -MantBits))

LN2 == FDec(693147181, 9)
LOG2E == FDec(1442695041, 9)
PI == FDec(314159265, 8)
E == FDec(271828183, 8)

FLn(x) == FMul(FLog2(x), LN2)

RECURSIVE ExpTerms(_, _, _, _)
ExpTerms(t, term, n, acc) ==
    IF term = 0 THEN acc
    ELSE LET nx == MulHi(term, t) \div n
         IN  ExpTerms(t, nx, n + 1, acc + nx)

\* a value f in [0, 1) as the integer f * 2^MantBits
FracBits(f) ==
    IF f.m = 0 \/ -f.e - MantBits > MantBits THEN 0
    ELSE f.m \div 2^(-f.e - MantBits)

\* 2^i * e^t, t = (t / 2^MantBits) in [0, ln 2)
Pow2Sum(i, t) ==
    Norm(1, HalfP + ((ExpTerms(t, t, 2, t) + 1) \div 2), i - (MantBits - 1))

\* 2^x for a finite x with integer part i
Pow2Parts(x, i) == Pow2Sum(i, MulHi(FracBits(FSub(x, FromInt(i))), LN2.m))

\* 2^x
FPow2(x) ==
    IF x.k = "nan" THEN FNaN
    ELSE IF x.k = "inf" THEN (IF x.s = 1 THEN x ELSE FZero)
    ELSE IF x.m # 0 /\ x.e + MantBits > 11 THEN (IF x.s = 1 THEN FInf(1) ELSE FZero)
    ELSE Pow2Parts(x, FloorInt(x))

FExp(x) == FPow2(FMul(x, LOG2E))

FPowf(b, y) ==
    IF IsZero(y) THEN FromInt(1)
    ELSE FPow2(FMul(y, FLog2(b)))

FSqrt(x) == IF IsZero(x) THEN x ELSE FPow2(FMul(FDec(5, 1), FLog2(x)))

RECURSIVE FPowi(_, _)
FPowi(b, n) == IF n = 0 THEN FromInt(1) ELSE FMul(FPowi(b, n - 1), b)

(***************************************************************************)
(* Option<T>                                                               *)
(***************************************************************************)
None == <<>>
Some(v) == <<v>>

(***************************************************************************)
(* Cost estimates                                                          *)
(***************************************************************************)
NB_BKZ_TOURS == 8

\* enum Estimates: the tag, followed by the payload of the variants that carry one
Estimates ==
    {<<"BdglSieve">>, <<"QSieve">>, <<"BjgSieve">>, <<"ChaLoySieve">>,
     <<"CheNgueEnum">>, <<"AblrEnum">>, <<"LotusEnum">>}
    \cup {<<t, c>> : t \in {"AdpsSieve", "AbfEnum", "Kyber", "Matzov"}, c \in BOOLEAN}

IsCombined(est) == est[1] \in {"Kyber", "Matzov"}

lll_cost(lattice_dim, bit_size) ==
    IF bit_size = None
    THEN FPowi(FromInt(lattice_dim), 3)
    ELSE FMul(FPowi(FromInt(lattice_dim), 3), FPowi(FromInt(bit_size[1]), 2))

bkz_tours(block_size, d) ==
    IF block_size < d THEN NB_BKZ_TOURS * d ELSE 1

\* Sieving estimates
bdgl_sieve(block_size) ==
    IF block_size < 90
    THEN FPow2(FAdd(FMul(FDec(387, 3), FromInt(block_size)), FDec(164, 1)))
    ELSE FPow2(FAdd(FMul(FDec(292, 3), FromInt(block_size)), FDec(164, 1)))

chaloy_sieve(block_size) == FPow2(FMul(FDec(257, 3), FromInt(block_size)))

bjg_sieve(block_size) == FPow2(FMul(FDec(311, 3), FromInt(block_size)))

adps_sieve(block_size, classical) ==
    IF classical
    THEN FPow2(FMul(FDec(292, 3), FromInt(block_size)))
    ELSE FPow2(FMul(FDec(265, 3), FromInt(block_size)))

q_sieve(block_size) ==
    FPow2(FAdd(FMul(FDec(265, 3), FromInt(block_size)), FDec(164, 1)))

\* Enumeration estimates
chengue_enum(block_size) ==
    LET b == FromInt(block_size)
        cost == FAdd(FAdd(FSub(FMul(FMul(FDec(270188776, 9), b), FLn(b)),
                               FMul(FDec(1019205045, 9), b)),
                          FDec(1610253135, 8)),
                     FLog2(FromInt(100)))
    IN  FPow2(cost)

abf_enum(block_size, classical) ==
    LET b == FromInt(block_size)
    IN  IF classical
        THEN LET power ==
                     IF block_size <= 92
                     THEN FAdd(FSub(FMul(FMul(FDec(1839, 4), b), FLog2(b)),
                                    FMul(FDec(995, 3), b)), FDec(2225, 2))
                     ELSE FAdd(FSub(FMul(FMul(FDec(125, 3), b), FLog2(b)),
                                    FMul(FDec(547, 3), b)), FDec(164, 1))
             IN  FPow2(power)
        ELSE FPow2(FMul(FMul(FDec(625, 4), b), FLog2(b)))

ablr_enum(block_size) ==
    LET b == FromInt(block_size)
        power == IF block_size <= 97
                 THEN FAdd(FSub(FMul(FMul(FDec(1839, 4), b), FLog2(b)),
                                FMul(FDec(1077, 3), b)), FDec(3512, 2))
                 ELSE FAdd(FSub(FMul(FMul(FDec(125, 3), b), FLog2(b)),
                                FMul(FDec(654, 3), b)), FDec(3184, 2))
    IN  FPow2(power)

lotus_enum(block_size) ==
    LET b == FromInt(block_size)
    IN  FPow2(FAdd(FSub(FMul(FMul(FDec(125, 3), b), FLog2(b)),
                        FMul(FDec(755, 3), b)), FDec(2274, 2)))

\* Improvements via Kyber and Matzov estimates
reduce_dimension(block_size) ==
    LET b == FromInt(block_size)
    IN  FMax(FDiv(FMul(b, FLn(FDiv(FromInt(4), FromInt(3)))),
                  FLn(FDiv(b, FMul(FMul(FromInt(2), PI), E)))),
             FZero)

\* svp_calls with the multiple taken only from a difference of 3 on
svp_calls_from_three(block_size, d) ==
    IF FGt(FSub(FromInt(d), FromInt(block_size)), FromInt(2))
    THEN FMul(FDec(546, 2), FromInt(d - block_size))
    ELSE FDec(546, 2)

\* svp_calls of kyber_cost and matzov_cost; d - block_size is evaluated on
\* usize only where the comparison on f64 has shown it to be above 1
svp_calls(block_size, d) ==
    IF FGt(FSub(FromInt(d), FromInt(block_size)), FromInt(1))
    THEN FMul(FDec(546, 2), FromInt(d - block_size))
    ELSE FDec(546, 2)

\* the body shared by kyber_cost and matzov_cost, t the pair of coefficients
combined_cost(block_size, d, t) ==
    IF block_size < 20
    THEN chengue_enum(block_size)
    ELSE LET beta == FSub(FromInt(block_size), reduce_dimension(block_size))
             gates == FMul(FDec(546, 2), FPow2(FAdd(FMul(t[1], beta), t[2])))
         IN  FAdd(lll_cost(d, None), FMul(svp_calls(block_size, d), gates))

\* the pair t of kyber_cost
kyber_t(classical) ==
    IF classical
    THEN <<FDec(298802613, 9), FDec(260111212, 7)>>
    ELSE <<FDec(269447964, 9), FDec(289723735, 7)>>

\* the pair t of matzov_cost
matzov_t(classical) ==
    IF classical
    THEN <<FDec(296135003, 9), FDec(203878860, 7)>>
    ELSE <<FDec(266367654, 9), FDec(252995415, 7)>>

\* kyber_cost with the enumeration branch taken up to block size 20 included
kyber_cost_enum_at_20(block_size, d, q, classical) ==
    IF block_size <= 20 THEN chengue_enum(block_size)
    ELSE combined_cost(block_size, d, kyber_t(classical))

kyber_cost(block_size, d, q, classical) ==
    combined_cost(block_size, d, kyber_t(classical))

matzov_cost(block_size, d, q, classical) ==
    combined_cost(block_size, d, matzov_t(classical))

svp_cost(est, block_size) ==
    CASE est[1] = "LotusEnum" -> lotus_enum(block_size)
      [] est[1] = "CheNgueEnum" -> chengue_enum(block_size)
      [] est[1] = "AbfEnum" -> abf_enum(block_size, est[2])
      [] est[1] = "AblrEnum" -> ablr_enum(block_size)
      [] est[1] = "BdglSieve" -> bdgl_sieve(block_size)
      [] est[1] = "QSieve" -> q_sieve(block_size)
      [] est[1] = "AdpsSieve" -> adps_sieve(block_size, est[2])
      [] est[1] = "BjgSieve" -> bjg_sieve(block_size)
      [] est[1] = "ChaLoySieve" -> chaloy_sieve(block_size)

\* bkz_cost with the tours multiplier and the LLL term applied to every model
bkz_cost_tours_for_all(est, block_size, d, q) ==
    LET svp == IF est[1] = "Kyber" THEN kyber_cost(block_size, d, q, est[2])
               ELSE IF est[1] = "Matzov" THEN matzov_cost(block_size, d, q, est[2])
               ELSE svp_cost(est, block_size)
    IN  FAdd(FMul(FromInt(bkz_tours(block_size, d)), svp), lll_cost(block_size, None))

bkz_cost(est, block_size, d, q) ==
    IF est[1] = "Kyber" THEN kyber_cost(block_size, d, q, est[2])
    ELSE IF est[1] = "Matzov" THEN matzov_cost(block_size, d, q, est[2])
    ELSE FAdd(FMul(FromInt(bkz_tours(block_size, d)), svp_cost(est, block_size)),
              lll_cost(block_size, None))

(***************************************************************************)
(* BKZ delta                                                               *)
(***************************************************************************)
small_approximations ==
    << <<2, FDec(102190, 5)>>, <<5, FDec(101862, 5)>>, <<10, FDec(101616, 5)>>,
       <<15, FDec(101485, 5)>>, <<20, FDec(101420, 5)>>, <<25, FDec(101342, 5)>>,
       <<28, FDec(101331, 5)>>, <<40, FDec(101295, 5)>> >>

\* small_approximations.iter().cloned().collect(): the HashMap<usize, f64> of the pairs
collect(pairs) ==
    [key \in {pairs[i][1] : i \in DOMAIN pairs} |->
        pairs[CHOOSE i \in DOMAIN pairs : pairs[i][1] = key][2]]

approx_map == collect(small_approximations)

\* keys.sort(): the keys in ascending order, whatever order the map yields them in
RECURSIVE SortedKeys(_)
SortedKeys(S) ==
    IF S = {} THEN <<>>
    ELSE LET lo == CHOOSE x \in S : \A y \in S : x <= y
         IN  <<lo>> \o SortedKeys(S \ {lo})

\* the loop of bkz_delta breaking on key >= block_size
RECURSIVE ClosestKeyBelow(_, _, _, _)
ClosestKeyBelow(keys, i, block_size, closest) ==
    IF i > Len(keys) \/ keys[i] >= block_size THEN closest
    ELSE ClosestKeyBelow(keys, i + 1, block_size, keys[i])

\* for &key in &keys { if key > block_size { break; } closest = key; }
RECURSIVE ClosestKey(_, _, _, _)
ClosestKey(keys, i, block_size, closest) ==
    IF i > Len(keys) \/ keys[i] > block_size THEN closest
    ELSE ClosestKey(keys, i + 1, block_size, keys[i])

\* the formula with the outer exponent 1 / (b - 1)
delta_formula_full_root(b) ==
    FPowf(FMul(FDiv(b, FMul(FMul(FromInt(2), PI), E)),
               FPowf(FMul(PI, b), FDiv(FromInt(1), b))),
          FDiv(FromInt(1), FSub(b, FromInt(1))))

\* the formula of the last branch of bkz_delta; b is block_size as f64
delta_formula(b) ==
    FPowf(FMul(FDiv(b, FMul(FMul(FromInt(2), PI), E)),
               FPowf(FMul(PI, b), FDiv(FromInt(1), b))),
          FDiv(FromInt(1), FMul(FromInt(2), FSub(b, FromInt(1)))))

\* the body of bkz_delta once approx_map is built; b is block_size as f64
bkz_delta_of(block_size, map, b) ==
    IF block_size <= 2 THEN map[2]
    ELSE IF block_size < 40
         THEN map[ClosestKey(SortedKeys(DOMAIN map), 1, block_size, 2)]
    ELSE IF block_size = 40 THEN map[40]
    ELSE delta_formula(b)

bkz_delta(block_size) == bkz_delta_of(block_size, approx_map, FromInt(block_size))

(***************************************************************************)
(* usize                                                                   *)
(*                                                                         *)
(* A usize n is held as n when n < 2^63 and as n - 2^64 from 2^63 up, so   *)
(* that a wrapped difference a - b + 2^64 is the integer a - b.            *)
(***************************************************************************)
usize_MAX == -1

\* a < b on usize
usize_lt(a, b) == IF (a < 0) = (b < 0) THEN a < b ELSE b < 0

\* std::cmp::min on usize
min(a, b) == IF usize_lt(b, a) THEN b ELSE a

\* n as f64
usize_as_f64(n) == IF n < 0 THEN FAdd(FPow2(FromInt(64)), FromInt(n)) ELSE FromInt(n)

\* x as usize: truncating, saturating at 0 and at usize::MAX, 0 for NaN
f64_as_usize(x) ==
    IF x.k = "nan" THEN 0
    ELSE IF x.k = "inf" THEN (IF x.s = 1 THEN usize_MAX ELSE 0)
    ELSE IF x.s = -1 \/ x.m = 0 THEN 0
    ELSE IF x.e + MantBits > 64 THEN usize_MAX
    ELSE FloorInt(x)

\* a - b on usize overflows
sub_overflows(a, b) == usize_lt(a, b)

\* bkz_delta of a usize that may lie above 2^63, where only the formula applies
bkz_delta_usize(n) == IF n < 0 THEN delta_formula(usize_as_f64(n)) ELSE bkz_delta(n)

(***************************************************************************)
(* Short vectors                                                           *)
(***************************************************************************)
\* the outcome of a call that aborts
Panic == <<"panic">>

\* 2^(0.2075 * x)
batch_of(x) == FPow2(FMul(FDec(2075, 4), x))

\* the tuple for Some(n) with the multiplier rounded down
kyber_amortized_floor(cost, beta_, c) ==
    <<FDec(11547, 4),
      FMul(FFloor(c), cost),
      f64_as_usize(FFloor(FMul(FFloor(c), batch_of(beta_)))),
      f64_as_usize(beta_)>>

\* the tuple returned for Some(n), n # 1: c is the amortization multiplier
kyber_amortized(cost, beta_, c) ==
    <<FDec(11547, 4),
      FMul(FCeil(c), cost),
      f64_as_usize(FFloor(FMul(FCeil(c), batch_of(beta_)))),
      f64_as_usize(beta_)>>

\* kyber_short_vectors without the arm for Some(1)
kyber_short_of_no_single(block_size, cost, nb_vec_out, beta_) ==
    IF nb_vec_out = None
    THEN <<FDec(11547, 4), cost, f64_as_usize(FFloor(batch_of(beta_))),
           f64_as_usize(beta_)>>
    ELSE kyber_amortized(cost, beta_, FDiv(usize_as_f64(nb_vec_out[1]), batch_of(beta_)))

\* kyber_short_vectors with the batch size of the None arm rounded up
kyber_short_of_ceil_batch(block_size, cost, nb_vec_out, beta_) ==
    IF nb_vec_out = Some(1) THEN <<FromInt(1), cost, block_size, 1>>
    ELSE IF nb_vec_out = None
         THEN <<FDec(11547, 4), cost, f64_as_usize(FCeil(batch_of(beta_))),
                f64_as_usize(beta_)>>
    ELSE kyber_amortized(cost, beta_, FDiv(usize_as_f64(nb_vec_out[1]), batch_of(beta_)))

kyber_short_of(block_size, cost, nb_vec_out, beta_) ==
    IF nb_vec_out = Some(1) THEN <<FromInt(1), cost, block_size, 1>>
    ELSE IF nb_vec_out = None
         THEN <<FDec(11547, 4), cost, f64_as_usize(FFloor(batch_of(beta_))),
                f64_as_usize(beta_)>>
    ELSE kyber_amortized(cost, beta_, FDiv(usize_as_f64(nb_vec_out[1]), batch_of(beta_)))

kyber_short_vectors(block_size, d, q, nb_vec_out, classical) ==
    kyber_short_of(block_size, kyber_cost(block_size, d, q, classical), nb_vec_out,
                   FSub(FromInt(block_size), FFloor(reduce_dimension(block_size))))

\* sieve_dim, from _beta
matzov_sieve_dim(block_size, d, _beta, t) ==
    IF block_size < d
    THEN min(d, f64_as_usize(FFloor(FAdd(usize_as_f64(_beta),
                 FDiv(FLog2(FMul(FromInt(d - block_size), FDec(546, 2))), t[1])))))
    ELSE _beta

matzov_scaling_fact_rho(block_size, sieve_dim) ==
    FMul(FMul(FSqrt(FDiv(FromInt(4), FromInt(3))),
              FPowf(bkz_delta_usize(sieve_dim), FSub(usize_as_f64(sieve_dim), FromInt(1)))),
         FPowf(bkz_delta(block_size), FSub(FromInt(1), usize_as_f64(sieve_dim))))

\* floor(2^(0.2075 * sieve_dim))
matzov_batch(sieve_dim) == FFloor(batch_of(usize_as_f64(sieve_dim)))

\* the end of matzov_short_vectors with the guard c > 2^1
matzov_finish_low_guard(scaling_fact_rho, cost, sieve_dim, t, c) ==
    IF FGt(c, FPowf(FromInt(2), FromInt(1)))
    THEN <<scaling_fact_rho, FInf(1), usize_MAX, sieve_dim>>
    ELSE <<scaling_fact_rho,
           FMul(FCeil(c), FAdd(cost, FMul(FDec(546, 2),
                    FPow2(FAdd(FMul(t[1], usize_as_f64(sieve_dim)), t[2]))))),
           f64_as_usize(FMul(FCeil(c), matzov_batch(sieve_dim))),
           sieve_dim>>

\* lines 244 to 256, once c and scaling_fact_rho are known
matzov_finish(scaling_fact_rho, cost, sieve_dim, t, c) ==
    IF FGt(c, FPowf(FromInt(2), FromInt(10000)))
    THEN <<scaling_fact_rho, FInf(1), usize_MAX, sieve_dim>>
    ELSE <<scaling_fact_rho,
           FMul(FCeil(c), FAdd(cost, FMul(FDec(546, 2),
                    FPow2(FAdd(FMul(t[1], usize_as_f64(sieve_dim)), t[2]))))),
           f64_as_usize(FMul(FCeil(c), matzov_batch(sieve_dim))),
           sieve_dim>>

\* the amortization multiplier c
matzov_c(nb_vec_out, sieve_dim) ==
    FDiv(usize_as_f64(IF nb_vec_out = None THEN f64_as_usize(matzov_batch(sieve_dim))
                      ELSE nb_vec_out[1]),
         matzov_batch(sieve_dim))

\* the body from sieve_dim on with the caller's flag passed to kyber_cost
matzov_short_of_flag_passed(block_size, d, q, nb_vec_out, classical, sieve_dim) ==
    IF nb_vec_out = Some(1)
    THEN <<FromInt(1), kyber_cost(block_size, d, q, classical), block_size, 1>>
    ELSE matzov_finish(matzov_scaling_fact_rho(block_size, sieve_dim),
                       matzov_cost(block_size, d, q, classical), sieve_dim,
                       matzov_t(classical), matzov_c(nb_vec_out, sieve_dim))

\* the body from sieve_dim on
matzov_short_of(block_size, d, q, nb_vec_out, classical, sieve_dim) ==
    IF nb_vec_out = Some(1) THEN <<FromInt(1), kyber_cost(block_size, d, q, TRUE), block_size, 1>>
    ELSE matzov_finish(matzov_scaling_fact_rho(block_size, sieve_dim),
                       matzov_cost(block_size, d, q, classical), sieve_dim,
                       matzov_t(classical), matzov_c(nb_vec_out, sieve_dim))

\* floor(reduce_dimension(block_size)) as usize
reduced_by(block_size) == f64_as_usize(FFloor(reduce_dimension(block_size)))

\* overflow_checks is the build's setting: with it the subtraction of line 220
\* aborts when it overflows, without it the difference wraps
matzov_short_vectors(block_size, d, q, nb_vec_out, classical, overflow_checks) ==
    IF overflow_checks /\ sub_overflows(block_size, reduced_by(block_size)) THEN Panic
    ELSE matzov_short_of(block_size, d, q, nb_vec_out, classical,
             matzov_sieve_dim(block_size, d, block_size - reduced_by(block_size),
                              matzov_t(classical)))

(***************************************************************************)
(* Simulators                                                              *)
(***************************************************************************)
\* my_constants::SMALL_SLOPE_T8: the slope of the Z-shape for the small block
\* sizes, keyed by block size
SMALL_SLOPE_T8 ==
    (2 :> FDec(4473, 5)) @@ (5 :> FDec(4472, 5)) @@ (10 :> FDec(4402, 5)) @@
    (15 :> FDec(4407, 5)) @@ (20 :> FDec(4334, 5)) @@ (25 :> FDec(4326, 5)) @@
    (30 :> FDec(4218, 5)) @@ (35 :> FDec(4237, 5)) @@ (40 :> FDec(4144, 5)) @@
    (45 :> FDec(4054, 5)) @@ (50 :> FDec(3961, 5)) @@ (55 :> FDec(3862, 5)) @@
    (60 :> FDec(3745, 5))

sim_log_volume(d, n, q, approx) ==
    IF approx = None
    THEN FAdd(FMul(FLog2(FromInt(q)), FromInt(d - n)),
              FMul(FLog2(FromInt(1)), FromInt(n)))
    ELSE FAdd(FAdd(FMul(FLog2(FromInt(q)), FromInt(d - n - 1)),
                   FMul(FLog2(FromInt(1)), FromInt(n))),
              FLog2(approx[1]))

\* the first loop of gsa_simulator with the coefficient d - 2 * i
gsa_push_shifted(d, log_volume, delta) ==
    [j \in 1..d |->
        FAdd(FMul(FromInt(d - 2 * (j - 1)), FLog2(delta)),
             FDiv(log_volume, FromInt(d)))]

\* the first loop of gsa_simulator with the coefficient 2 * i - (d - 1)
gsa_push_reversed(d, log_volume, delta) ==
    [j \in 1..d |->
        FAdd(FMul(FromInt(2 * (j - 1) - (d - 1)), FLog2(delta)),
             FDiv(log_volume, FromInt(d)))]

\* r_log after the first loop; index i of the code is index i + 1 here
gsa_push(d, log_volume, delta) ==
    [j \in 1..d |->
        FAdd(FMul(FromInt(d - 1 - 2 * (j - 1)), FLog2(delta)),
             FDiv(log_volume, FromInt(d)))]

gsa_r_log(d, n, q, block_size, approx) ==
    gsa_push(d, sim_log_volume(d, n, q, approx), bkz_delta(block_size))

\* r_log[i] = 2^(2 * r_log[i])
gsa_pow(r_log) == [j \in DOMAIN r_log |-> FPow2(FMul(FromInt(2), r_log[j]))]

gsa_simulator(d, n, q, block_size, approx) ==
    gsa_pow(gsa_r_log(d, n, q, block_size, approx))

\* the interpolation without the factor 2 on the logarithm
zgsa_interpolate_single_log(r, log_delta) ==
    FAdd(FMul(r, SMALL_SLOPE_T8[60]), FMul(FSub(FromInt(1), r), log_delta))

\* the slope for 61 <= block_size <= 70, log_delta the value of bkz_delta(70).log2()
zgsa_interpolate(r, log_delta) ==
    FAdd(FMul(r, SMALL_SLOPE_T8[60]), FMul(FMul(FSub(FromInt(1), r), FromInt(2)), log_delta))

zgsa_slope_of(block_size, log_delta) ==
    IF block_size <= 60 THEN SMALL_SLOPE_T8[block_size]
    ELSE IF block_size <= 70
         THEN zgsa_interpolate(FDiv(FSub(FromInt(70), FromInt(block_size)), FromInt(10)),
                               log_delta)
    ELSE FMul(FromInt(2), log_delta)

zgsa_slope(block_size) == zgsa_slope_of(block_size, FLog2(bkz_delta(70)))

\* the loop "for i in 0..l" that writes the sloped region
RECURSIVE zgsa_loop(_, _, _, _, _, _, _)
\* if index < l_log.len() { l_log[index] = value; }
write_if_in(l_log, index, value) ==
    IF index < Len(l_log) THEN [l_log EXCEPT ![index + 1] = value] ELSE l_log

\* l.checked_sub(i + 1).unwrap_or(0)
checked_sub_or_0(l, k) == IF l >= k THEN l - k ELSE 0

zgsa_loop(l_log, i, l, diff, slope, max_diff, mid) ==
    IF i >= l \/ FGt(diff, max_diff) THEN l_log
    ELSE zgsa_loop(write_if_in(write_if_in(l_log, checked_sub_or_0(l, i + 1), FAdd(mid, diff)),
                               l + i, FSub(mid, diff)),
                   i + 1, l, FAdd(diff, slope), slope, max_diff, mid)

\* the comparator |a, b| a.partial_cmp(b): ascending order
sort_before_ascending(x, y) == FCmp(x, y) \in {-1, 0}

\* the comparator |a, b| b.partial_cmp(a): x goes before y when it is the larger
sort_before(x, y) == FCmp(y, x) \in {-1, 0}

RECURSIVE sort_insert(_, _)
sort_insert(sorted, x) ==
    IF sorted = <<>> THEN <<x>>
    ELSE IF sort_before(Head(sorted), x) THEN <<Head(sorted)>> \o sort_insert(Tail(sorted), x)
    ELSE <<x>> \o sorted

RECURSIVE sort_by(_)
sort_by(seq) ==
    IF seq = <<>> THEN <<>> ELSE sort_insert(sort_by(Tail(seq)), Head(seq))

\* vec![log_volume; l]
vec_of(value, l) == [j \in 1..l |-> value]

\* l_log as the loop leaves it, once l, log_volume and slope are set
zgsa_fill(q, l, log_volume, slope) ==
    zgsa_loop(vec_of(log_volume, l), 0, l, FDiv(slope, FromInt(2)), slope,
              FDiv(FSub(FLog2(FromInt(q)), FLog2(FromInt(1))), FromInt(2)),
              FDiv(FAdd(FLog2(FromInt(q)), FLog2(FromInt(1))), FromInt(2)))

\* l_log before the sort
zgsa_l_log(d, n, q, block_size, approx) ==
    zgsa_fill(q, IF approx = None THEN d - n ELSE d - n - 1,
              sim_log_volume(d, n, q, approx), zgsa_slope(block_size))

\* l_log.into_iter().map(|l| (2.0 * l).exp()).collect()
zgsa_exp(l_log) == [j \in 1..Len(l_log) |-> FExp(FMul(FromInt(2), l_log[j]))]

zgsa_simulator(d, n, q, block_size, approx) ==
    zgsa_exp(sort_by(zgsa_l_log(d, n, q, block_size, approx)))

(***************************************************************************)
(* Canonical serialization of matrices                                     *)
(*                                                                         *)
(* A matrix is its shape and its elements in the order of its storage,     *)
(* column after column; the elements are u64, written as 8 bytes each.     *)
(***************************************************************************)
Ok(v) == <<"Ok", v>>
Err(e) == <<"Err", e>>

\* the element of m in row i and column j, both counted from 0
at(m, i, j) == m.data[j * m.nrows + i + 1]

\* self.iter(): the elements column after column
iter(m) ==
    [k \in 1..(m.nrows * m.ncols) |-> at(m, (k - 1) % m.nrows, (k - 1) \div m.nrows)]

\* the len low bytes of n, lowest first
RECURSIVE to_le_bytes(_, _)
to_le_bytes(n, len) ==
    IF len = 0 THEN <<>> ELSE <<n % 256>> \o to_le_bytes(n \div 256, len - 1)

RECURSIVE from_le_bytes(_)
from_le_bytes(bytes) ==
    IF bytes = <<>> THEN 0 ELSE bytes[1] + 256 * from_le_bytes(Tail(bytes))

\* u64::serialize_with_mode: 8 bytes in either mode
u64_serialize_with_mode(n, compress) == to_le_bytes(n, 8)

\* u64::deserialize_with_mode: the value and the bytes left in the reader
u64_deserialize_with_mode(bytes, compress) ==
    IF Len(bytes) < 8 THEN Err("IoError")
    ELSE Ok([value |-> from_le_bytes(SubSeq(bytes, 1, 8)),
             reader |-> SubSeq(bytes, 9, Len(bytes))])

\* for item in self.iter() { item.serialize_with_mode(&mut writer, compress)?; }
RECURSIVE serialize_items(_, _, _)
serialize_items(items, k, compress) ==
    IF k > Len(items) THEN <<>>
    ELSE u64_serialize_with_mode(items[k], compress) \o serialize_items(items, k + 1, compress)

\* the bytes the writer holds after serialize_with_mode
serialize_with_mode(m, compress) ==
    u64_serialize_with_mode(m.nrows, compress)
        \o u64_serialize_with_mode(m.ncols, compress)
        \o serialize_items(iter(m), 1, compress)

\* for _ in 0..nrows * ncols { data.push(T::deserialize_with_mode(..)?); }
RECURSIVE deserialize_items(_, _, _, _)
deserialize_items(bytes, count, data, compress) ==
    IF count = 0 THEN Ok(data)
    ELSE IF u64_deserialize_with_mode(bytes, compress)[1] = "Err"
         THEN u64_deserialize_with_mode(bytes, compress)
    ELSE deserialize_items(u64_deserialize_with_mode(bytes, compress)[2].reader, count - 1,
                           Append(data, u64_deserialize_with_mode(bytes, compress)[2].value),
                           compress)

\* VecStorage::new(nrows, ncols, data) and from_vec_storage: data is the storage
from_vec_storage(nrows, ncols, data) == [nrows |-> nrows, ncols |-> ncols, data |-> data]

\* the matrix built from what deserialize_items read
deserialize_data(nrows, ncols, items) ==
    IF items[1] = "Err" THEN items ELSE Ok(from_vec_storage(nrows, ncols, items[2]))

\* the second u64 read as nrows and the first as ncols
deserialize_shape_cols_first(first, second, compress) ==
    IF second[1] = "Err" THEN second
    ELSE deserialize_data(second[2].value, first.value,
                          deserialize_items(second[2].reader,
                                            first.value * second[2].value, <<>>, compress))

\* first is the u64 read as nrows, second the outcome of reading ncols
deserialize_shape(first, second, compress) ==
    IF second[1] = "Err" THEN second
    ELSE deserialize_data(first.value, second[2].value,
                          deserialize_items(second[2].reader,
                                            first.value * second[2].value, <<>>, compress))

deserialize_with_mode(bytes, compress) ==
    IF u64_deserialize_with_mode(bytes, compress)[1] = "Err"
    THEN u64_deserialize_with_mode(bytes, compress)
    ELSE deserialize_shape(
             u64_deserialize_with_mode(bytes, compress)[2],
             u64_deserialize_with_mode(u64_deserialize_with_mode(bytes, compress)[2].reader,
                                       compress),
             compress)

(***************************************************************************)
(* The caller                                                              *)
(***************************************************************************)
MaxBlockSize == 100
MaxDimExcess == 2
MaxDim == 14
MaxModulus == 4
MaxSimBlockSize == 62
MaxShortBlockSize == 26
MaxRequested == 3
MaxThreads == 2
MaxRows == 2
MaxCols == 2
MaxOddModulus == 17
MaxRingModulus == 7
MaxSize == 2
PolyN == 2
Q == 7
P == 3
MaxNoise == 1

BlockSizes == 1..MaxBlockSize
\* dimensions around the block size: below it, equal to it and above it
DimsFor(block_size) == {d \in (block_size - 1)..(block_size + MaxDimExcess) : d >= 1}
Moduli == 2..MaxModulus
\* d > n >= 0
SimDims == {dn \in (1..MaxDim) \X (0..MaxDim) : dn[2] < dn[1] /\ dn[2] \in {0, 1, dn[1] - 1}}
SimBlockSizes == {b \in 2..MaxSimBlockSize : b \in DOMAIN SMALL_SLOPE_T8 \/ b > 60}
Approxes == {None, Some(FromInt(2)), Some(FDec(5, 1))}
\* the inputs of the tests simulator_cn11 and test_zgsa_sim
TestSim == [d |-> 213, n |-> 128, q |-> 2048, block_size |-> 40, approx |-> None]

NoCall ==
    [fn |-> "none", est |-> <<"none">>, block_size |-> 0, d |-> 0, n |-> 0, q |-> 0,
     approx |-> None, classical |-> FALSE, nb_vec_out |-> None, overflow_checks |-> FALSE]

Init ==
    /\ pc = "idle"
    /\ call = NoCall
    /\ ret = <<>>

\* a block size and a dimension at which the exponent of the enumeration
\* estimates passes the largest exponent of f64
LargeCost == [block_size |-> 1200, d |-> 1200]

CostDims ==
    {bd \in BlockSizes \X (0..(MaxBlockSize + MaxDimExcess)) : bd[2] \in DimsFor(bd[1])}
        \cup {<<LargeCost.block_size, LargeCost.d>>}

Call_bkz_cost ==
    /\ pc = "idle"
    /\ \E est \in Estimates, bd \in CostDims, q \in {0, MaxModulus} :
            /\ call' = [NoCall EXCEPT !.fn = "bkz_cost", !.est = est,
                            !.block_size = bd[1], !.d = bd[2], !.q = q]
            /\ ret' = bkz_cost(est, bd[1], bd[2], q)
    /\ pc' = "done"

Call_kyber_cost ==
    /\ pc = "idle"
    /\ \E classical \in BOOLEAN, block_size \in BlockSizes, q \in {0, MaxModulus} :
         \E d \in DimsFor(block_size) :
            /\ call' = [NoCall EXCEPT !.fn = "kyber_cost", !.classical = classical,
                            !.block_size = block_size, !.d = d, !.q = q]
            /\ ret' = kyber_cost(block_size, d, q, classical)
    /\ pc' = "done"

Call_matzov_cost ==
    /\ pc = "idle"
    /\ \E classical \in BOOLEAN, block_size \in BlockSizes, q \in {0, MaxModulus} :
         \E d \in DimsFor(block_size) :
            /\ call' = [NoCall EXCEPT !.fn = "matzov_cost", !.classical = classical,
                            !.block_size = block_size, !.d = d, !.q = q]
            /\ ret' = matzov_cost(block_size, d, q, classical)
    /\ pc' = "done"

Call_bkz_delta ==
    /\ pc = "idle"
    /\ \E block_size \in 0..(MaxBlockSize + MaxDimExcess) :
            /\ call' = [NoCall EXCEPT !.fn = "bkz_delta", !.block_size = block_size]
            /\ ret' = bkz_delta(block_size)
    /\ pc' = "done"

SimCalls ==
    {[d |-> dn[1], n |-> dn[2], q |-> q, block_size |-> b, approx |-> a] :
        dn \in SimDims, q \in Moduli, b \in SimBlockSizes, a \in Approxes}

Call_gsa_simulator ==
    /\ pc = "idle"
    /\ \E c \in SimCalls \cup {TestSim} :
            /\ call' = [NoCall EXCEPT !.fn = "gsa_simulator", !.d = c.d, !.n = c.n,
                            !.q = c.q, !.block_size = c.block_size, !.approx = c.approx]
            /\ ret' = gsa_simulator(c.d, c.n, c.q, c.block_size, c.approx)
    /\ pc' = "done"

\* calls in a dimension that admits the block sizes of the interpolated and
\* of the fixed slope
SlopeCalls ==
    {[d |-> 72, n |-> n, q |-> q, block_size |-> b, approx |-> None] :
        n \in {70, 71}, q \in Moduli, b \in {61, 65, 70, 71, 72}}

Call_zgsa_simulator ==
    /\ pc = "idle"
    /\ \E c \in SimCalls \cup SlopeCalls :
            /\ call' = [NoCall EXCEPT !.fn = "zgsa_simulator", !.d = c.d, !.n = c.n,
                            !.q = c.q, !.block_size = c.block_size, !.approx = c.approx]
            /\ ret' = zgsa_simulator(c.d, c.n, c.q, c.block_size, c.approx)
    /\ pc' = "done"

\* the input of the tests test_kyber_short_vectors and test_matzov_short_vectors
TestShort == [block_size |-> 100, d |-> 500, q |-> 0, classical |-> TRUE]

ShortDims ==
    {bd \in (2..MaxShortBlockSize) \X (1..(MaxShortBlockSize + MaxDimExcess)) :
        bd[2] \in DimsFor(bd[1])} \cup {<<TestShort.block_size, TestShort.d>>}

\* the natural batch size of kyber_short_vectors, floor(2^(0.2075 * beta_))
natural_batch(block_size) ==
    f64_as_usize(FFloor(batch_of(FSub(FromInt(block_size),
                                      FFloor(reduce_dimension(block_size))))))

\* the requested counts: the small ones, the one of test_kyber_short_vectors_2
\* and the two around the natural batch size
Requests(block_size) ==
    {None} \cup {Some(n) : n \in (0..MaxRequested) \cup {1000}
                              \cup {natural_batch(block_size), natural_batch(block_size) + 1}}

Call_kyber_short_vectors ==
    /\ pc = "idle"
    /\ \E bd \in ShortDims, q \in {0, MaxModulus}, classical \in BOOLEAN :
         \E nb_vec_out \in Requests(bd[1]) :
            /\ call' = [NoCall EXCEPT !.fn = "kyber_short_vectors", !.block_size = bd[1],
                            !.d = bd[2], !.q = q, !.classical = classical,
                            !.nb_vec_out = nb_vec_out]
            /\ ret' = kyber_short_vectors(bd[1], bd[2], q, nb_vec_out, classical)
    /\ pc' = "done"

Call_matzov_short_vectors ==
    /\ pc = "idle"
    /\ \E bd \in ShortDims, q \in {0, MaxModulus}, classical \in BOOLEAN,
          overflow_checks \in BOOLEAN :
         \E nb_vec_out \in Requests(bd[1]) :
            /\ call' = [NoCall EXCEPT !.fn = "matzov_short_vectors", !.block_size = bd[1],
                            !.d = bd[2], !.q = q, !.classical = classical,
                            !.nb_vec_out = nb_vec_out, !.overflow_checks = overflow_checks]
            /\ ret' = matzov_short_vectors(bd[1], bd[2], q, nb_vec_out, classical,
                                           overflow_checks)
    /\ pc' = "done"

\* the caller drops the returned value
Return ==
    /\ pc = "done"
    /\ pc' = "idle"
    /\ call' = NoCall
    /\ ret' = <<>>

\* the values of the elements: all bytes zero, two low bytes that differ, and
\* four bytes set
Elements == {0, 258, 2147483647}

Matrices ==
    UNION {[nrows : {r}, ncols : {c}, data : [1..(r * c) -> Elements]] :
              r \in 0..MaxRows, c \in 0..MaxCols}

Compress == {"No", "Yes"}

\* mat.serialize_with_mode(&mut bytes, mode).unwrap()
Call_serialize_with_mode ==
    /\ pc = "idle"
    /\ \E mat \in Matrices, mode \in Compress :
            call' = [fn |-> "serialize_with_mode", mat |-> mat, mode |-> mode,
                     bytes |-> serialize_with_mode(mat, mode)]
    /\ pc' = "serialized"
    /\ ret' = Ok(<<>>)

\* Matrix::<u64>::deserialize_with_mode(bytes.as_slice(), mode, Validate::Yes)
Call_deserialize_with_mode ==
    /\ pc = "serialized"
    /\ call' = [call EXCEPT !.fn = "deserialize_with_mode"]
    /\ ret' = deserialize_with_mode(call.bytes, call.mode)
    /\ pc' = "done"

NextSerial == Call_serialize_with_mode \/ Call_deserialize_with_mode \/ Return

NextCost == Call_bkz_cost \/ Call_kyber_cost \/ Call_matzov_cost \/ Return
NextDelta == Call_bkz_delta \/ Return
NextSim == Call_gsa_simulator \/ Call_zgsa_simulator \/ Return
NextShort == Call_kyber_short_vectors \/ Call_matzov_short_vectors \/ Return

SpecCost == Init /\ [][NextCost]_vars
SpecDelta == Init /\ [][NextDelta]_vars
SpecSim == Init /\ [][NextSim]_vars
SpecShort == Init /\ [][NextShort]_vars
SpecSerial == Init /\ [][NextSerial]_vars

(***************************************************************************)
(* Threads calling bkz_delta                                               *)
(*                                                                         *)
(* Each thread runs bkz_delta statement by statement on its own locals:    *)
(* the map, the key vector, closest and the loop position.  The order in   *)
(* which a HashMap yields its keys differs from map to map, so each call   *)
(* draws its own.                                                          *)
(***************************************************************************)
Threads == 1..MaxThreads

\* approx_map.keys(): the orders in which the map of one call may yield its keys
IterationOrders ==
    { <<2, 5, 10, 15, 20, 25, 28, 40>>,
      <<40, 28, 25, 20, 15, 10, 5, 2>>,
      <<28, 2, 40, 10, 25, 5, 20, 15>> }

\* the block sizes the threads pass: one or two for each branch of bkz_delta
ThreadBlockSizes == {2, 7, 39, 40, 41}

\* keys left in the order the map yielded them
sort_unsorted(keys) == keys

\* keys.sort()
RECURSIVE sort(_)
sort(keys) ==
    IF keys = <<>> THEN <<>>
    ELSE LET i == CHOOSE i \in DOMAIN keys : \A j \in DOMAIN keys : keys[i] <= keys[j]
         IN  <<keys[i]>> \o sort(SubSeq(keys, 1, i - 1) \o SubSeq(keys, i + 1, Len(keys)))

\* the locals of a thread that is not inside bkz_delta
NoThreadCall ==
    [fn |-> "none", block_size |-> 0, order |-> <<>>, keys |-> <<>>, closest |-> 0, i |-> 0]

InitThreads ==
    /\ pc = [t \in Threads |-> "idle"]
    /\ call = [t \in Threads |-> NoThreadCall]
    /\ ret = [t \in Threads |-> <<>>]

\* the thread enters bkz_delta and collects small_approximations into approx_map
Thread_collect_map ==
    \E t \in Threads :
        /\ pc[t] = "idle"
        /\ \E block_size \in ThreadBlockSizes, order \in IterationOrders :
              call' = [call EXCEPT ![t] = [NoThreadCall EXCEPT !.fn = "bkz_delta",
                                              !.block_size = block_size, !.order = order]]
        /\ pc' = [pc EXCEPT ![t] = "branch"]
        /\ UNCHANGED ret

\* the if / else if chain; the second branch collects the keys of the map
Thread_branch ==
    \E t \in Threads :
        /\ pc[t] = "branch"
        /\ IF call[t].block_size <= 2
           THEN /\ ret' = [ret EXCEPT ![t] = approx_map[2]]
                /\ pc' = [pc EXCEPT ![t] = "done"]
                /\ UNCHANGED call
           ELSE IF call[t].block_size < 40
           THEN /\ call' = [call EXCEPT ![t].keys = call[t].order]
                /\ pc' = [pc EXCEPT ![t] = "sort"]
                /\ UNCHANGED ret
           ELSE IF call[t].block_size = 40
           THEN /\ ret' = [ret EXCEPT ![t] = approx_map[40]]
                /\ pc' = [pc EXCEPT ![t] = "done"]
                /\ UNCHANGED call
           ELSE /\ ret' = [ret EXCEPT ![t] = delta_formula(FromInt(call[t].block_size))]
                /\ pc' = [pc EXCEPT ![t] = "done"]
                /\ UNCHANGED call

\* keys.sort(); let mut closest = 2;
Thread_sort ==
    \E t \in Threads :
        /\ pc[t] = "sort"
        /\ call' = [call EXCEPT ![t].keys = sort(call[t].keys), ![t].closest = 2, ![t].i = 1]
        /\ pc' = [pc EXCEPT ![t] = "loop"]
        /\ UNCHANGED ret

\* one turn of the loop over the keys, and the return after it
Thread_loop ==
    \E t \in Threads :
        /\ pc[t] = "loop"
        /\ IF \/ call[t].i > Len(call[t].keys)
              \/ call[t].keys[call[t].i] > call[t].block_size
           THEN /\ ret' = [ret EXCEPT ![t] = approx_map[call[t].closest]]
                /\ pc' = [pc EXCEPT ![t] = "done"]
                /\ UNCHANGED call
           ELSE /\ call' = [call EXCEPT ![t].closest = call[t].keys[call[t].i],
                                        ![t].i = call[t].i + 1]
                /\ UNCHANGED <<pc, ret>>

\* the calling thread drops the returned value
Thread_return ==
    \E t \in Threads :
        /\ pc[t] = "done"
        /\ pc' = [pc EXCEPT ![t] = "idle"]
        /\ call' = [call EXCEPT ![t] = NoThreadCall]
        /\ ret' = [ret EXCEPT ![t] = <<>>]

NextThreads ==
    Thread_collect_map \/ Thread_branch \/ Thread_sort \/ Thread_loop \/ Thread_return

SpecThreads == InitThreads /\ [][NextThreads]_vars

(***************************************************************************)
(* Signed representatives of Z_q                                           *)
(*                                                                         *)
(* An element of Fp64 is held in Montgomery form, x * R mod q with         *)
(* R = 2^64 mod q; q is odd, so R is invertible mod q.                     *)
(***************************************************************************)
\* 2^(2^k) mod q, by k squarings
square_mod(x, q) == (x * x) % q

RECURSIVE pow2_pow2_mod(_, _)
pow2_pow2_mod(k, q) ==
    IF k = 0 THEN 2 % q ELSE square_mod(pow2_pow2_mod(k - 1, q), q)

\* R of the Montgomery backend with one 64-bit limb
MontR(q) == pow2_pow2_mod(6, q)

\* Fp64::from(n) for an unsigned n: n reduced mod q, in Montgomery form
Fp64_from(n, q) == ((n % q) * MontR(q)) % q

\* value.into_bigint(): the canonical value in [0, q) of a Montgomery form
into_bigint(value, q) == CHOOSE x \in 0..(q - 1) : (x * MontR(q)) % q = value

\* UnsignedRepresentative::from(value)
UnsignedRepresentative_from(value, q) == into_bigint(value, q)

MODULUS_MINUS_ONE_DIV_TWO(q) == (q - 1) \div 2

\* the signed representative with q subtracted from q_half on
SignedRepresentative_from_half_on(value, q) ==
    IF into_bigint(value, q) >= MODULUS_MINUS_ONE_DIV_TWO(q)
    THEN UnsignedRepresentative_from(value, q) - q
    ELSE UnsignedRepresentative_from(value, q)

\* From<Fp64<C>> for SignedRepresentative
SignedRepresentative_from(value, q) ==
    IF into_bigint(value, q) > MODULUS_MINUS_ONE_DIV_TWO(q)
    THEN UnsignedRepresentative_from(value, q) - q
    ELSE UnsignedRepresentative_from(value, q)

\* From<SignedRepresentative> for Fp64<C>
Fp64_from_signed(value, q) ==
    IF value < 0 THEN Fp64_from(value + q, q) ELSE Fp64_from(value, q)

OddModuli == {q \in 3..MaxOddModulus : q % 2 = 1}

\* SignedRepresentative::from(value) for a field element of an odd modulus
Call_SignedRepresentative_from ==
    /\ pc = "idle"
    /\ \E q \in OddModuli :
         \E x \in 0..(q - 1) :
            /\ call' = [fn |-> "SignedRepresentative_from", q |-> q, x |-> x,
                        value |-> Fp64_from(x, q)]
            /\ ret' = SignedRepresentative_from(Fp64_from(x, q), q)
    /\ pc' = "signed"

\* Fp64::from(signed) for the representative just obtained
Call_Fp64_from_signed ==
    /\ pc = "signed"
    /\ call' = [call EXCEPT !.fn = "Fp64_from_signed"]
    /\ ret' = Fp64_from_signed(ret, call.q)
    /\ pc' = "done"

NextSigned == Call_SignedRepresentative_from \/ Call_Fp64_from_signed \/ Return

SpecSigned == Init /\ [][NextSigned]_vars

(***************************************************************************)
(* Ring::pow                                                               *)
(*                                                                         *)
(* The ring is Z_q; the exponent is a sequence of u64 limbs, the least     *)
(* significant first.  The loop runs one bit at a time, from the highest   *)
(* bit of the last limb down.                                              *)
(***************************************************************************)
u64_BITS == 64

\* bit number bit of a limb; the limbs used here lie below 2^30
limb_bit(limb, bit) == bit < 30 /\ (limb \div (2 ^ bit)) % 2 = 1

\* BitIteratorBE: bit number n of the exponent, counted from the lowest
bit_at(exp, n) == limb_bit(exp[(n \div u64_BITS) + 1], n % u64_BITS)

\* the body of the loop with the multiplication before the squaring
pow_step_multiply_first(res, bit, self, q) ==
    IF bit THEN ((res * self) * (res * self)) % q ELSE (res * res) % q

\* res.square_in_place(); if i { res *= self; }
pow_step(res, bit, self, q) ==
    IF bit THEN (((res * res) % q) * self) % q ELSE (res * res) % q

\* the exponents: no limb, zero, small values, zero limbs above the value, and
\* values with a bit in the second limb
Exponents ==
    {<<>>, <<0>>, <<1>>, <<2>>, <<5>>, <<6>>, <<0, 0>>, <<3, 0>>, <<0, 1>>, <<1, 1>>,
     <<5, 2>>}

\* let mut res = Self::one(); and the iterator over the bits of exp
Call_pow ==
    /\ pc = "idle"
    /\ \E q \in 2..MaxRingModulus, exp \in Exponents :
         \E self \in 0..(q - 1) :
            call' = [fn |-> "pow", q |-> q, self |-> self, exp |-> exp,
                     n |-> u64_BITS * Len(exp), leading |-> TRUE]
    /\ ret' = 1
    /\ pc' = "pow"

\* one bit of the iterator: skipped while the bits are leading zeros, else
\* handed to the body of the loop; the loop ends with the last bit
pow_next_bit ==
    /\ pc = "pow"
    /\ IF call.n = 0
       THEN /\ pc' = "done"
            /\ UNCHANGED <<call, ret>>
       ELSE IF call.leading /\ ~bit_at(call.exp, call.n - 1)
       THEN /\ call' = [call EXCEPT !.n = call.n - 1]
            /\ UNCHANGED <<pc, ret>>
       ELSE /\ call' = [call EXCEPT !.n = call.n - 1, !.leading = FALSE]
            /\ ret' = pow_step(ret, bit_at(call.exp, call.n - 1), call.self, call.q)
            /\ UNCHANGED pc

NextPow == Call_pow \/ pow_next_bit \/ Return

SpecPow == Init /\ [][NextPow]_vars

(***************************************************************************)
(* SymmetricMatrix                                                         *)
(*                                                                         *)
(* struct SymmetricMatrix(Vec<Vec<F>>): the tag and the rows it wraps.     *)
(* Rows and columns count from 0 in the code and from 1 here.              *)
(***************************************************************************)
SymmetricMatrix(rows) == <<"SymmetricMatrix", rows>>

\* From<Vec<Vec<F>>>: the assertion on the rows, then Self(value)
SymmetricMatrix_from(value) ==
    IF \A i \in DOMAIN value : Len(value[i]) = i THEN SymmetricMatrix(value) ELSE Panic

zero(n) == SymmetricMatrix([i \in 1..n |-> [j \in 1..i |-> 0]])

size(m) == Len(m[2])

\* at(i, j), for i and j counted from 0
SymmetricMatrix_at(m, i, j) == IF j <= i THEN m[2][i + 1][j + 1] ELSE m[2][j + 1][i + 1]

map(m, func) ==
    SymmetricMatrix_from([i \in DOMAIN m[2] |-> [j \in DOMAIN m[2][i] |-> func[m[2][i][j]]]])

\* from_fn and from_par_fn: the collected rows do not depend on the order in
\* which func is called
from_fn(n, func) ==
    SymmetricMatrix_from([i \in 1..n |-> [j \in 1..i |-> func[<<i - 1, j - 1>>]]])

\* the rows one after the other
RECURSIVE flat_map(_)
flat_map(rows) == IF rows = <<>> THEN <<>> ELSE Head(rows) \o flat_map(Tail(rows))

to_vec(m) == flat_map(m[2])

\* the rows cut out of vec for r rows
rows_of_vec(vec, r) ==
    [i \in 1..r |-> SubSeq(vec, ((i - 1) * i) \div 2 + 1, (i * (i + 1)) \div 2)]

\* the bound of the loop of try_from_vec
try_from_vec_bound(vec) == f64_as_usize(FCeil(FSqrt(FromInt(Len(vec) * 2))))

\* for r in 0..ceil(sqrt(2 * len)): the first r with r * (r + 1) / 2 == len
try_from_vec(vec) ==
    IF \E r \in 0..(try_from_vec_bound(vec) - 1) : (r * (r + 1)) \div 2 = Len(vec)
    THEN Some(SymmetricMatrix(rows_of_vec(vec,
             CHOOSE r \in 0..(try_from_vec_bound(vec) - 1) : (r * (r + 1)) \div 2 = Len(vec))))
    ELSE None

\* bottom_left.row_iter(): row i of a Matrix, i counted from 1
row_of(mat, i) == [j \in 1..mat.ncols |-> at(mat, i - 1, j - 1)]

from_blocks(top_left, bottom_left, bottom_right) ==
    IF \/ bottom_left.nrows # size(top_left)
       \/ bottom_left.ncols # size(top_left)
       \/ size(bottom_right) # size(top_left)
    THEN Panic
    ELSE SymmetricMatrix(top_left[2]
             \o [i \in 1..size(top_left) |-> row_of(bottom_left, i) \o bottom_right[2][i]])

\* Mul<R> for SymmetricMatrix<F>
mul(m, rhs) ==
    SymmetricMatrix_from([i \in DOMAIN m[2] |-> [j \in DOMAIN m[2][i] |-> m[2][i][j] * rhs]])

\* Add; zip stops with the shorter of two rows
add(m, rhs) ==
    IF size(m) # size(rhs) THEN Panic
    ELSE SymmetricMatrix_from(
             [i \in DOMAIN m[2] |->
                 [j \in 1..(IF Len(m[2][i]) <= Len(rhs[2][i]) THEN Len(m[2][i])
                            ELSE Len(rhs[2][i])) |-> m[2][i][j] + rhs[2][i][j]]])

\* Valid::check: self.0.check(), which checks the elements and nothing else
check(m) == Ok(<<>>)

\* the values of F used as inputs
SymElems == {0, 1}

\* Vec<F> of up to len entries
VecsUpTo(len) == UNION {[1..k -> SymElems] : k \in 0..len}

\* Vec<Vec<F>> of up to MaxSize rows of up to MaxSize + 1 entries, of any shape
VecVecs == UNION {[1..r -> VecsUpTo(MaxSize + 1)] : r \in 0..MaxSize}

\* the matrices the constructors build
SymmetricMatrices == {SymmetricMatrix_from(v) : v \in VecVecs} \ {Panic}

SquareMatrices ==
    UNION {[nrows : {n}, ncols : {n}, data : [1..(n * n) -> SymElems]] : n \in 0..MaxSize}

Call_SymmetricMatrix_from ==
    /\ pc = "idle"
    /\ \E value \in VecVecs :
            /\ call' = [fn |-> "from", value |-> value]
            /\ ret' = SymmetricMatrix_from(value)
    /\ pc' = "done"

Call_zero ==
    /\ pc = "idle"
    /\ \E n \in 0..MaxSize :
            /\ call' = [fn |-> "zero", n |-> n]
            /\ ret' = zero(n)
    /\ pc' = "done"

Call_from_fn ==
    /\ pc = "idle"
    /\ \E n \in 0..MaxSize, par \in BOOLEAN :
         \E func \in [(0..(n - 1)) \X (0..(n - 1)) -> SymElems] :
            /\ call' = [fn |-> IF par THEN "from_par_fn" ELSE "from_fn", n |-> n,
                        func |-> func]
            /\ ret' = from_fn(n, func)
    /\ pc' = "done"

Call_map ==
    /\ pc = "idle"
    /\ \E m \in SymmetricMatrices, func \in [SymElems -> SymElems] :
            /\ call' = [fn |-> "map", m |-> m, func |-> func]
            /\ ret' = map(m, func)
    /\ pc' = "done"

Call_to_vec ==
    /\ pc = "idle"
    /\ \E m \in SymmetricMatrices :
            /\ call' = [fn |-> "to_vec", m |-> m]
            /\ ret' = to_vec(m)
    /\ pc' = "flat"

\* try_from_vec on the vector just obtained from to_vec, or on any vector
Call_try_from_vec ==
    /\ \/ pc = "flat" /\ call' = [fn |-> "try_from_vec", vec |-> ret]
       \/ /\ pc = "idle"
          /\ \E vec \in VecsUpTo((MaxSize * (MaxSize + 1)) \div 2 + 1) :
                call' = [fn |-> "try_from_vec", vec |-> vec]
    /\ ret' = try_from_vec(call'.vec)
    /\ pc' = "done"

Call_from_blocks ==
    /\ pc = "idle"
    /\ \E top_left \in SymmetricMatrices, bottom_left \in SquareMatrices,
          bottom_right \in SymmetricMatrices :
            /\ call' = [fn |-> "from_blocks", top_left |-> top_left,
                        bottom_left |-> bottom_left, bottom_right |-> bottom_right]
            /\ ret' = from_blocks(top_left, bottom_left, bottom_right)
    /\ pc' = "done"

Call_add ==
    /\ pc = "idle"
    /\ \E m \in SymmetricMatrices, rhs \in SymmetricMatrices :
            /\ call' = [fn |-> "add", m |-> m, rhs |-> rhs]
            /\ ret' = add(m, rhs)
    /\ pc' = "done"

Call_mul ==
    /\ pc = "idle"
    /\ \E m \in SymmetricMatrices, rhs \in SymElems :
            /\ call' = [fn |-> "mul", m |-> m, rhs |-> rhs]
            /\ ret' = mul(m, rhs)
    /\ pc' = "done"

\* rand: every entry is drawn from the generator
Call_rand ==
    /\ pc = "idle"
    /\ \E n \in 0..MaxSize :
         \E rows \in {v \in [1..n -> VecsUpTo(MaxSize)] : \A i \in 1..n : Len(v[i]) = i} :
            /\ call' = [fn |-> "rand", n |-> n]
            /\ ret' = SymmetricMatrix(rows)
    /\ pc' = "done"

\* Vec::<Vec<F>>::deserialize_with_mode(reader, ..).map(Self): the reader may
\* hold the encoding of any Vec<Vec<F>>
Call_SymmetricMatrix_deserialize_with_mode ==
    /\ pc = "idle"
    /\ \E decoded \in VecVecs :
            /\ call' = [fn |-> "deserialize_with_mode", decoded |-> decoded]
            /\ ret' = Ok(SymmetricMatrix(decoded))
    /\ pc' = "deserialized"

\* check on the value just deserialized
Call_check ==
    /\ pc = "deserialized"
    /\ call' = [fn |-> "check", m |-> ret[2]]
    /\ ret' = check(ret[2])
    /\ pc' = "done"

NextSymmetric ==
    \/ Call_SymmetricMatrix_from \/ Call_zero \/ Call_from_fn \/ Call_map \/ Call_to_vec
    \/ Call_try_from_vec \/ Call_from_blocks \/ Call_add \/ Call_mul \/ Call_rand
    \/ Call_SymmetricMatrix_deserialize_with_mode \/ Call_check \/ Return

SpecSymmetric == Init /\ [][NextSymmetric]_vars

(***************************************************************************)
(* BFV (commitment/src/bfv.rs)                                             *)
(*                                                                         *)
(* A polynomial of Pow2CyclotomicPolyRing<Zq<q>, N> is the sequence of its *)
(* N coefficients (PolyN of them here), each a field element in Montgomery *)
(* form; the product is taken modulo X^N + 1.                              *)
(***************************************************************************)
\* Zq::<q>::from(x) for an i64
Zq_from_i64(x, q) == IF x < 0 THEN (q - Fp64_from(-x, q)) % q ELSE Fp64_from(x, q)

\* x as u128: truncating, 0 for NaN and below 0
f64_as_u128(x) == IF x.k # "num" \/ x.s = -1 THEN 0 ELSE FloorInt(x)

poly_add(a, b, q) == [i \in 1..PolyN |-> (a[i] + b[i]) % q]

poly_neg(a, q) == [i \in 1..PolyN |-> (q - a[i]) % q]

\* the sum over the first i coefficients of a of their share of coefficient k
\* of a * b, X^N being -1
RECURSIVE mul_coeff(_, _, _, _, _)
mul_coeff(a, b, k, i, q) ==
    IF i = 0 THEN 0
    ELSE mul_coeff(a, b, k, i - 1, q)
         + (IF i <= k
            THEN into_bigint(a[i], q) * into_bigint(b[k - i + 1], q)
            ELSE -(into_bigint(a[i], q) * into_bigint(b[k - i + 1 + PolyN], q)))

poly_mul(a, b, q) == [k \in 1..PolyN |-> Fp64_from(mul_coeff(a, b, k, PolyN, q) % q, q)]

\* p_to_q_ring: each coefficient through its unsigned representative
p_to_q_ring(poly, p, q) ==
    [i \in 1..PolyN |-> Fp64_from(UnsignedRepresentative_from(poly[i], p), q)]

\* -(pk2 * sk_zq + e)
pk_gen_poly1(sk, pk2, e) == poly_neg(poly_add(poly_mul(pk2, p_to_q_ring(sk, P, Q), Q), e, Q), Q)

\* floor(q / p) as u128
encrypt_delta(p, q) == f64_as_u128(FFloor(FDiv(FromInt(q), FromInt(p))))

\* m_delta of encrypt
encrypt_m_delta(m) ==
    [i \in 1..PolyN |-> Fp64_from(encrypt_delta(P, Q) * UnsignedRepresentative_from(m[i], P), Q)]

\* PublicKey::encrypt: <<c1, c2>>
encrypt(pk1, pk2, m, u, e1, e2) ==
    << poly_add(poly_add(poly_mul(pk1, u, Q), e1, Q), encrypt_m_delta(m), Q),
       poly_add(poly_mul(pk2, u, Q), e2, Q) >>

\* c1 + c2 * sk_zq
decrypt_raw(sk, c1, c2) == poly_add(c1, poly_mul(c2, p_to_q_ring(sk, P, Q), Q), Q)

\* one coefficient of decrypt: (delta * unsigned as f64) as u128, into Zq<P>
decrypt_coeff(x) ==
    Fp64_from(f64_as_u128(FMul(FDiv(FromInt(P), FromInt(Q)),
                               FromInt(UnsignedRepresentative_from(x, Q)))), P)

\* SecretKey::decrypt
decrypt(sk, c1, c2) == [i \in 1..PolyN |-> decrypt_coeff(decrypt_raw(sk, c1, c2)[i])]

\* polynomials with the coefficients of a set of integers
PolysOver(vals, q) == [1..PolyN -> {Zq_from_i64(v, q) : v \in vals}]

\* WeightedTernaryChallengeSet: coefficients in {-1, 0, 1}
TernaryPolys(q) == PolysOver({-1, 0, 1}, q)

\* polynomials over vals with at most one non-zero coefficient
SparsePolys(vals, q) ==
    {e \in PolysOver(vals, q) : Cardinality({i \in 1..PolyN : e[i] # 0}) <= 1}

\* get_gaussian: samples truncated to i64, of magnitude up to MaxNoise
GaussianPolys(q) == SparsePolys((-MaxNoise)..MaxNoise, q)

\* the pairs (e1, e2) of rand_tuple, with at most one non-zero sample in all
GaussianPairs(q) ==
    {r \in GaussianPolys(q) \X GaussianPolys(q) :
        (\A i \in 1..PolyN : r[1][i] = 0) \/ (\A i \in 1..PolyN : r[2][i] = 0)}

\* SecretKey::new
Call_SecretKey_new ==
    /\ pc = "idle"
    /\ \E sk \in TernaryPolys(P) : call' = [fn |-> "new", sk |-> sk]
    /\ ret' = <<>>
    /\ pc' = "sk"

\* sk.pk_gen()
Call_pk_gen ==
    /\ pc = "sk"
    /\ \E e \in GaussianPolys(Q), pk2 \in SparsePolys(0..(Q - 1), Q) :
          call' = [fn |-> "pk_gen", sk |-> call.sk,
                   poly1 |-> pk_gen_poly1(call.sk, pk2, e), poly2 |-> pk2]
    /\ ret' = <<>>
    /\ pc' = "pk"

\* pk.encrypt(&Plaintext::rand_message(), PublicKey::rand_tuple(None))
Call_encrypt ==
    /\ pc = "pk"
    /\ \E m \in PolysOver(0..(P - 1), P), u \in TernaryPolys(Q), r \in GaussianPairs(Q) :
          /\ call' = [fn |-> "encrypt", sk |-> call.sk, m |-> m]
          /\ ret' = encrypt(call.poly1, call.poly2, m, u, r[1], r[2])
    /\ pc' = "ct"

\* sk.decrypt(ctxt).poly
Call_decrypt ==
    /\ pc = "ct"
    /\ call' = [call EXCEPT !.fn = "decrypt"]
    /\ ret' = decrypt(call.sk, ret[1], ret[2])
    /\ pc' = "done"

NextBfv == Call_SecretKey_new \/ Call_pk_gen \/ Call_encrypt \/ Call_decrypt \/ Return

SpecBfv == Init /\ [][NextBfv]_vars

\* every operation of the caller that starts from Init
Next ==
    \/ NextCost \/ NextDelta \/ NextSim \/ NextShort \/ NextSerial
    \/ NextSigned \/ NextPow \/ NextSymmetric \/ NextBfv

Spec == Init /\ [][Next]_vars

(***************************************************************************)
(* Properties                                                              *)
(***************************************************************************)
Done(fn) == pc = "done" /\ call.fn = fn

\* |a - b| <= tol
Close(a, b, tol) == FLe(FAbs(FSub(a, b)), tol)

\* the tolerance of the tests' assert_almost_eq on the profile sums
SimTolerance == FDec(1, 2)

\* the sums of seq[lo..hi], of their log2 and of their ln, taken by halves
RECURSIVE SumOf(_, _, _)
SumOfHalves(seq, lo, mid, hi) == FAdd(SumOf(seq, lo, mid), SumOf(seq, mid + 1, hi))
SumOf(seq, lo, hi) ==
    IF lo > hi THEN FZero
    ELSE IF lo = hi THEN seq[lo]
    ELSE SumOfHalves(seq, lo, (lo + hi) \div 2, hi)

RECURSIVE SumLog2(_, _, _)
SumLog2Halves(seq, lo, mid, hi) == FAdd(SumLog2(seq, lo, mid), SumLog2(seq, mid + 1, hi))
SumLog2(seq, lo, hi) ==
    IF lo > hi THEN FZero
    ELSE IF lo = hi THEN FLog2(seq[lo])
    ELSE SumLog2Halves(seq, lo, (lo + hi) \div 2, hi)

RECURSIVE SumLn(_, _, _)
SumLnHalves(seq, lo, mid, hi) == FAdd(SumLn(seq, lo, mid), SumLn(seq, mid + 1, hi))
SumLn(seq, lo, hi) ==
    IF lo > hi THEN FZero
    ELSE IF lo = hi THEN FLn(seq[lo])
    ELSE SumLnHalves(seq, lo, (lo + hi) \div 2, hi)

\* C1: for a non-combined model bkz_cost returns
\* bkz_tours(block_size, d) * C_svp(block_size) + d^3, the LLL term being the
\* cube of the lattice dimension d
C1_BkzCostAddsLllOfDimension ==
    (Done("bkz_cost") /\ ~IsCombined(call.est)) =>
        ret = FAdd(FMul(FromInt(IF call.block_size < call.d
                                THEN NB_BKZ_TOURS * call.d ELSE 1),
                        svp_cost(call.est, call.block_size)),
                   FPowi(FromInt(call.d), 3))

\* C2: for Kyber and Matzov bkz_cost returns exactly kyber_cost, respectively
\* matzov_cost, of (block_size, d, q, flag): no tours multiplier, no further
\* LLL term
C2_CombinedModelsReturnDirectly ==
    (Done("bkz_cost") /\ IsCombined(call.est)) =>
        ret = IF call.est[1] = "Kyber"
              THEN kyber_cost(call.block_size, call.d, call.q, call.est[2])
              ELSE matzov_cost(call.block_size, call.d, call.q, call.est[2])

C2_Witness ==
    /\ Done("bkz_cost")
    /\ call.est = <<"Matzov", FALSE>>
    /\ call.block_size = 30
    /\ call.d = 32
    /\ ret = matzov_cost(30, 32, call.q, FALSE)

\* the documented domain of the simulators: d > n >= 0, q > 1, 2 <= block_size <= d
ValidSimCall ==
    /\ call.d > call.n /\ call.n >= 0 /\ call.q > 1
    /\ call.block_size >= 2 /\ call.block_size <= call.d

\* C3: on every valid input, with approx None or Some, gsa_simulator and
\* zgsa_simulator each return a profile of exactly d entries
C3_ProfilesHaveDEntries ==
    ((Done("gsa_simulator") \/ Done("zgsa_simulator")) /\ ValidSimCall)
        => Len(ret) = call.d

\* the sum of ln of the profile that the test simulator_cn11 expects
TestSimSumLn == FDec(1296185228, 6)

C5_ZgsaSumEqualsGsaSum ==
    (Done("zgsa_simulator") /\ ValidSimCall /\ call.approx = None) =>
        Close(SumLn(ret, 1, Len(ret)),
              SumLn(gsa_simulator(call.d, call.n, call.q, call.block_size, None),
                    1, call.d),
              SimTolerance)

C7_ZgsaNonIncreasing ==
    Done("zgsa_simulator") =>
        \A i, j \in 1..Len(ret) : i < j => FGe(ret[i], ret[j])

C7_Witness ==
    /\ Done("zgsa_simulator")
    /\ call.d = 14 /\ call.n = 0 /\ call.q = 2 /\ call.block_size = 2
    /\ call.approx = None
    /\ Len(ret) = 14
    /\ FGt(ret[1], ret[14])
    /\ FGt(ret[13], ret[14])

TableKeys == {small_approximations[i][1] : i \in DOMAIN small_approximations}
TableValue(key) ==
    small_approximations[CHOOSE i \in DOMAIN small_approximations :
                             small_approximations[i][1] = key][2]
LargestKeyAtMost(b) ==
    CHOOSE key \in TableKeys : key <= b /\ \A other \in TableKeys : other <= b => other <= key

\* C8: bkz_delta is a step function on the keys {2, 5, 10, 15, 20, 25, 28, 40}:
\* for 2 <= block_size <= 40 it returns the value of the largest key <=
\* block_size, and the formula is used only for block_size > 40
C8_DeltaIsStepFunction ==
    Done("bkz_delta") =>
        /\ TableKeys = {2, 5, 10, 15, 20, 25, 28, 40}
        /\ (call.block_size >= 2 /\ call.block_size <= 40)
             => ret = TableValue(LargestKeyAtMost(call.block_size))
        /\ call.block_size > 40
             => (ret = delta_formula(FromInt(call.block_size)) /\ ret \notin
                    {TableValue(key) : key \in TableKeys})

C8_Witness ==
    /\ Done("bkz_delta")
    /\ call.block_size = 27
    /\ ret = FDec(101342, 5)

\* how far bkz_delta(41) may lie below bkz_delta(40)
DeltaEpsilon == FDec(1, 3)

\* C9: bkz_delta is non-increasing on 2..40, and bkz_delta(41) is <=
\* bkz_delta(40) and differs from it by a small epsilon only
C9_DeltaNonIncreasing ==
    Done("bkz_delta") =>
        /\ (call.block_size >= 3 /\ call.block_size <= 40)
             => FLe(ret, bkz_delta(call.block_size - 1))
        /\ call.block_size = 41
             => /\ FLe(ret, bkz_delta(40))
                /\ FLe(FSub(bkz_delta(40), ret), DeltaEpsilon)

C9_Witness ==
    /\ Done("bkz_delta")
    /\ call.block_size = 41
    /\ FLt(ret, TableValue(40))
    /\ FGt(ret, FromInt(1))

\* what kyber_cost and matzov_cost return for the pair t, as C10 states it
CombinedExpected(block_size, d, t) ==
    IF block_size < 20 THEN chengue_enum(block_size)
    ELSE FAdd(FPowi(FromInt(d), 3),
              FMul(FMul(FDec(546, 2), FromInt(IF d - block_size > 1 THEN d - block_size ELSE 1)),
                   FMul(FDec(546, 2),
                        FPow2(FAdd(FMul(t[1], FSub(FromInt(block_size),
                                                   reduce_dimension(block_size))),
                                   t[2])))))

\* C10: for block_size < 20 kyber_cost and matzov_cost return
\* chengue_enum(block_size), whatever d, q and the flag; for block_size >= 20
\* they return lll_cost(d) + svp_calls * gates with
\* gates = 5.46 * 2^(t0 * (block_size - reduce_dimension(block_size)) + t1)
C10_CombinedCostBranches ==
    /\ Done("kyber_cost")
         => ret = CombinedExpected(call.block_size, call.d, kyber_t(call.classical))
    /\ Done("matzov_cost")
         => ret = CombinedExpected(call.block_size, call.d, matzov_t(call.classical))

C10_Witness ==
    /\ Done("kyber_cost")
    /\ call.block_size = 20
    /\ call.d = 22
    /\ call.classical
    /\ ret # chengue_enum(20)

\* beta_eff = block_size - floor(reduce_dimension(block_size)), as an integer
beta_eff(block_size) == block_size - FloorInt(reduce_dimension(block_size))

\* floor(2^(0.2075 * x)) for an integer x
NaturalBatch(x) == FloorInt(FPow2(FMul(FDec(2075, 4), FromInt(x))))

\* C11: kyber_short_vectors with nb_vec_out = Some(1) returns
\* (1.0, kyber_cost(block_size, d, q, classical), block_size, 1)
C11_SingleVectorIsRawCost ==
    (Done("kyber_short_vectors") /\ call.nb_vec_out = Some(1)) =>
        ret = <<FromInt(1),
                kyber_cost(call.block_size, call.d, call.q, call.classical),
                call.block_size, 1>>

C11_Witness ==
    /\ Done("kyber_short_vectors")
    /\ call.nb_vec_out = Some(1)
    /\ call.block_size = 100 /\ call.d = 500 /\ ~call.classical
    /\ ret[3] = 100 /\ ret[4] = 1

C14_MonotoneInRequest ==
    (Done("kyber_short_vectors") /\ call.nb_vec_out # None
     /\ call.block_size >= 2 /\ call.block_size <= call.d) =>
        \A smaller \in Requests(call.block_size) \ {None} :
            smaller[1] <= call.nb_vec_out[1] =>
                /\ FLe(kyber_short_vectors(call.block_size, call.d, call.q, smaller,
                                           call.classical)[2], ret[2])
                /\ ~usize_lt(ret[3],
                             kyber_short_vectors(call.block_size, call.d, call.q, smaller,
                                                 call.classical)[3])

\* the value of x is above 2^n
ExceedsPow2(x, n) ==
    \/ x.k = "inf" /\ x.s = 1
    \/ /\ x.k = "num" /\ x.s = 1 /\ x.m # 0
       /\ \/ x.e + MantBits - 1 > n
          \/ x.e + MantBits - 1 = n /\ x.m > HalfP

IsSentinel(result) == result[2] = FInf(1) /\ result[3] = usize_MAX

Smaller(a, b) == IF a <= b THEN a ELSE b

\* C16: in matzov_short_vectors, for 2 <= block_size <= d the returned sieve_dim
\* is at most d; it is min(d, floor(beta_eff + log2(5.46 * (d - block_size)) / t0))
\* when block_size < d and beta_eff when block_size >= d; it is 121 for
\* (block_size = 100, d = 500, classical)
C16_SieveDimAtMostD ==
    (Done("matzov_short_vectors") /\ ret # Panic /\ call.nb_vec_out # Some(1)
     /\ call.block_size >= 2 /\ call.block_size <= call.d) =>
        /\ ~usize_lt(call.d, ret[4])
        /\ ret[4] = IF call.block_size < call.d
                    THEN Smaller(call.d,
                             FloorInt(FAdd(FromInt(beta_eff(call.block_size)),
                                 FDiv(FLog2(FMul(FDec(546, 2),
                                                 FromInt(call.d - call.block_size))),
                                      matzov_t(call.classical)[1]))))
                    ELSE beta_eff(call.block_size)
        /\ (call.block_size = 100 /\ call.d = 500 /\ call.classical) => ret[4] = 121

\* C17: on the documented domain (2 <= block_size <= d, d > n >= 0, q > 1) every
\* call returns a value without aborting and no unsigned subtraction overflows
C17_TotalOnDocumentedDomain ==
    (pc = "done" /\ call.block_size >= 2 /\ call.block_size <= call.d
     /\ call.d > call.n /\ call.n >= 0 /\ call.q > 1) =>
        /\ ret # Panic
        /\ call.fn = "matzov_short_vectors"
             => ~sub_overflows(call.block_size, reduced_by(call.block_size))

\* C18: for every model and every valid input (2 <= block_size <= d, q > 1)
\* bkz_cost returns a finite, non-negative value
C18_BkzCostFinite ==
    (Done("bkz_cost") /\ call.block_size >= 2 /\ call.block_size <= call.d
     /\ call.q > 1) =>
        (IsFinite(ret) /\ ret.s = 1)

\* C19: whatever the other threads are doing and in whatever order the map of
\* a call yields its keys, a call of bkz_delta returns what the same call
\* returns when run alone
C19_ConcurrentEqualsSequential ==
    \A t \in Threads :
        pc[t] = "done" => ret[t] = bkz_delta(call[t].block_size)

\* two threads have finished the same call on maps that yielded their keys in
\* different orders, neither of them ascending
C19_Witness ==
    \E t \in Threads, u \in Threads :
        /\ t # u
        /\ pc[t] = "done" /\ pc[u] = "done"
        /\ call[t].block_size = 39 /\ call[u].block_size = 39
        /\ call[t].order # call[u].order
        /\ call[t].order # sort(call[t].order)
        /\ call[u].order # sort(call[u].order)
        /\ call[t].keys = call[u].keys

\* C20: a matrix of any shape, serialized in either mode and deserialized in
\* the same mode, comes back: deserialization succeeds with the same shape and
\* with every element in the same row and column
C20_SerializationRoundTrips ==
    Done("deserialize_with_mode") =>
        /\ ret[1] = "Ok"
        /\ ret[2].nrows = call.mat.nrows
        /\ ret[2].ncols = call.mat.ncols
        /\ \A i \in 0..(call.mat.nrows - 1), j \in 0..(call.mat.ncols - 1) :
                at(ret[2], i, j) = at(call.mat, i, j)
        /\ ret[2] = call.mat

\* a matrix with more columns than rows and no two elements equal has been
\* serialized compressed and read back
C20_Witness ==
    /\ Done("deserialize_with_mode")
    /\ call.mode = "Yes"
    /\ call.mat.nrows = 1 /\ call.mat.ncols = 2
    /\ call.mat.data[1] # call.mat.data[2]
    /\ Len(call.bytes) = 32
    /\ ret[1] = "Ok"

\* gates of kyber_cost and matzov_cost for the pair t
GatesOf(block_size, t) ==
    FMul(FDec(546, 2),
         FPow2(FAdd(FMul(t[1], FSub(FromInt(block_size), reduce_dimension(block_size))),
                    t[2])))

\* the number of SVP calls as C24 states it, on the integers d and block_size
SvpCallsExpected(block_size, d) ==
    IF d - block_size <= 1 THEN FDec(546, 2)
    ELSE FMul(FDec(546, 2), FromInt(d - block_size))

\* C24: in kyber_cost and matzov_cost with block_size >= 20 the number of SVP
\* calls multiplying the gate count is 5.46 when d - block_size <= 1, also
\* when block_size >= d, and 5.46 * (d - block_size) when d - block_size > 1
C24_SvpCalls ==
    /\ (Done("kyber_cost") /\ call.block_size >= 20)
         => ret = FAdd(lll_cost(call.d, None),
                       FMul(SvpCallsExpected(call.block_size, call.d),
                            GatesOf(call.block_size, kyber_t(call.classical))))
    /\ (Done("matzov_cost") /\ call.block_size >= 20)
         => ret = FAdd(lll_cost(call.d, None),
                       FMul(SvpCallsExpected(call.block_size, call.d),
                            GatesOf(call.block_size, matzov_t(call.classical))))

\* matzov_cost has returned for a dimension two above the block size, where
\* the calls are doubled, after the same block size in a smaller dimension
C24_Witness ==
    /\ Done("matzov_cost")
    /\ call.block_size = 25
    /\ call.d = 27
    /\ ret = FAdd(lll_cost(27, None),
                  FMul(FMul(FDec(546, 2), FromInt(2)), GatesOf(25, matzov_t(call.classical))))
    /\ FGt(ret, matzov_cost(25, 24, call.q, call.classical))

\* the values diff takes at the steps the loop of zgsa_simulator performs
RECURSIVE StepDiffs(_, _, _, _, _)
StepDiffs(i, l, diff, slope, max_diff) ==
    IF i >= l \/ FGt(diff, max_diff) THEN <<>>
    ELSE <<diff>> \o StepDiffs(i + 1, l, FAdd(diff, slope), slope, max_diff)

\* log2(q) / 2, the level the sloped region is written around
HalfLogQ(q) == FDiv(FLog2(FromInt(q)), FromInt(2))

\* the steps of the call at hand
CallStepDiffs ==
    StepDiffs(0, IF call.approx = None THEN call.d - call.n ELSE call.d - call.n - 1,
              FDiv(zgsa_slope(call.block_size), FromInt(2)), zgsa_slope(call.block_size),
              HalfLogQ(call.q))

\* the entries of l_log holding level + sign * diff for a step performed
WrittenAt(l_log, level, sign, diffs) ==
    {j \in DOMAIN l_log :
        \E i \in DOMAIN diffs : l_log[j] = FAdd(level, FMul(FromInt(sign), diffs[i]))}

\* C25: the loop of zgsa_simulator raises the entry at index l - 1 - i to
\* log2(q)/2 + diff_i and lowers the entry at index l + i to log2(q)/2 - diff_i
\* at every step it performs on a valid input, so that as many entries are
\* lowered as raised
C25_SlopedRegionSymmetric ==
    (Done("zgsa_simulator") /\ ValidSimCall) =>
        Cardinality(WrittenAt(zgsa_l_log(call.d, call.n, call.q, call.block_size, call.approx),
                              HalfLogQ(call.q), -1, CallStepDiffs))
          = Cardinality(WrittenAt(zgsa_l_log(call.d, call.n, call.q, call.block_size,
                                             call.approx),
                                  HalfLogQ(call.q), 1, CallStepDiffs))

\* the slope as C26 states it
SlopeExpected(block_size) ==
    IF block_size <= 60 THEN SMALL_SLOPE_T8[block_size]
    ELSE IF block_size <= 70
         THEN FAdd(FMul(FDiv(FromInt(70 - block_size), FromInt(10)), SMALL_SLOPE_T8[60]),
                   FMul(FMul(FSub(FromInt(1), FDiv(FromInt(70 - block_size), FromInt(10))),
                             FromInt(2)),
                        FLog2(bkz_delta(70))))
    ELSE FMul(FromInt(2), FLog2(bkz_delta(70)))

\* C26: zgsa_simulator takes its slope from the table up to block size 60,
\* interpolates between table[60] and 2 * log2(bkz_delta(70)) from 61 to 70 and
\* uses 2 * log2(bkz_delta(70)) above 70, so that block size 70 gives what the
\* block sizes above it give.  The slope shows in the smallest entry returned,
\* exp(2 * (log2(q)/2 + slope/2)), written at the first step of the loop.
C26_SlopeByRegime ==
    (Done("zgsa_simulator") /\ Len(ret) >= 1) =>
        /\ ret[Len(ret)]
             = FExp(FMul(FromInt(2),
                         FAdd(HalfLogQ(call.q),
                              FDiv(SlopeExpected(call.block_size), FromInt(2)))))
        /\ call.block_size = 70
             => ret = zgsa_simulator(call.d, call.n, call.q, 71, call.approx)

\* zgsa_simulator has returned for block size 70: the same profile as for 71,
\* another one than for 65
C26_Witness ==
    /\ Done("zgsa_simulator")
    /\ call.block_size = 70
    /\ call.d = 72 /\ call.n = 70
    /\ Len(ret) = 2
    /\ ret = zgsa_simulator(72, 70, call.q, 71, None)
    /\ ret # zgsa_simulator(72, 70, call.q, 65, None)

\* 2^(0.2075 * beta_eff) for the block size
BatchOfBetaEff(block_size) == FPow2(FMul(FDec(2075, 4), FromInt(beta_eff(block_size))))

\* ceil(c) with c = N / 2^(0.2075 * beta_eff)
CeilOfMultiplier(block_size, N) == FCeil(FDiv(FromInt(N), BatchOfBetaEff(block_size)))

\* C27: for a request Some(N) with N >= 2 kyber_short_vectors reports the cost
\* ceil(c) * kyber_cost and the count floor(ceil(c) * 2^(0.2075 * beta_eff)),
\* with c = N / 2^(0.2075 * beta_eff), and the count is at least N
C27_AmortizedCoversRequest ==
    (Done("kyber_short_vectors") /\ call.nb_vec_out # None /\ call.nb_vec_out # Some(0)
        /\ call.nb_vec_out # Some(1)) =>
        /\ ret[2] = FMul(CeilOfMultiplier(call.block_size, call.nb_vec_out[1]),
                         kyber_cost(call.block_size, call.d, call.q, call.classical))
        /\ ret[3] = f64_as_usize(FFloor(FMul(CeilOfMultiplier(call.block_size,
                                                              call.nb_vec_out[1]),
                                             BatchOfBetaEff(call.block_size))))
        /\ ~usize_lt(ret[3], call.nb_vec_out[1])

\* C28: matzov_short_vectors with nb_vec_out = Some(1), when it returns, returns
\* (1.0, kyber_cost(block_size, d, q, true), block_size, 1): the cost is the
\* classical cost of kyber_cost whatever the flag, so the call with the other
\* flag returns the same tuple
C28_SingleVectorIgnoresFlag ==
    (Done("matzov_short_vectors") /\ call.nb_vec_out = Some(1) /\ ret # Panic) =>
        /\ ret = <<FromInt(1), kyber_cost(call.block_size, call.d, call.q, TRUE),
                   call.block_size, 1>>
        /\ ret = matzov_short_vectors(call.block_size, call.d, call.q, call.nb_vec_out,
                                      ~call.classical, call.overflow_checks)

\* a call with the flag off has returned for one vector, with a cost that is
\* neither the quantum cost of kyber_cost nor a cost of matzov_cost
C28_Witness ==
    /\ Done("matzov_short_vectors")
    /\ call.nb_vec_out = Some(1)
    /\ ~call.classical
    /\ call.block_size = 25 /\ call.d = 27
    /\ ret[2] = kyber_cost(25, 27, call.q, TRUE)
    /\ ret[2] # kyber_cost(25, 27, call.q, FALSE)
    /\ ret[2] # matzov_cost(25, 27, call.q, FALSE)
    /\ ret[2] # matzov_cost(25, 27, call.q, TRUE)

\* C22: for an odd modulus q and m = (q - 1) / 2, the signed representative of
\* the field element x in [0, q) is x when x <= m and x - q when x > m, it
\* lies in [-m, m], and converting it back gives the field element again; the
\* signed representative of what it converts to is itself
C22_SignedRepresentativeInverse ==
    /\ pc = "signed" =>
        /\ ret = IF call.x <= (call.q - 1) \div 2 THEN call.x ELSE call.x - call.q
        /\ ret >= -((call.q - 1) \div 2)
        /\ ret <= (call.q - 1) \div 2
        /\ SignedRepresentative_from(Fp64_from_signed(ret, call.q), call.q) = ret
    /\ Done("Fp64_from_signed") =>
        /\ ret = call.value
        /\ into_bigint(ret, call.q) = call.x

\* an element above m, whose Montgomery form is not its value, has been taken
\* to its negative representative and back
C22_Witness ==
    /\ Done("Fp64_from_signed")
    /\ call.q = 13
    /\ call.x = 7
    /\ call.value # call.x
    /\ SignedRepresentative_from(call.value, call.q) = -6
    /\ ret = call.value

\* a multiplied n times into one, in Z_q
RECURSIVE RepeatedMul(_, _, _)
RepeatedMul(a, n, q) == IF n = 0 THEN 1 % q ELSE (RepeatedMul(a, n - 1, q) * a) % q

\* a squared k times, a^(2^k), in Z_q
RECURSIVE RepeatedSquare(_, _, _)
RepeatedSquare(a, k, q) == IF k = 0 THEN a % q ELSE RepeatedSquare((a * a) % q, k - 1, q)

\* a^e for e the integer of the limbs: the product over the limbs of
\* (a^(2^(64 * i)))^limb_i, each power by repeated multiplication
RECURSIVE PowOfLimbs(_, _, _)
PowOfLimbs(a, exp, q) ==
    IF exp = <<>> THEN 1 % q
    ELSE (RepeatedMul(a, exp[1], q)
            * PowOfLimbs(RepeatedSquare(a, u64_BITS, q), Tail(exp), q)) % q

\* C23: pow returns self raised to the integer of the limbs of exp, the least
\* significant limb first: one for the exponent zero, with or without limbs,
\* and the same with zero limbs above the value; it agrees with repeated
\* multiplication
C23_PowIsRepeatedMultiplication ==
    Done("pow") =>
        /\ ret = PowOfLimbs(call.self, call.exp, call.q)
        /\ (\A j \in DOMAIN call.exp : call.exp[j] = 0) => ret = 1 % call.q
        /\ call.exp = <<3, 0>> => ret = RepeatedMul(call.self, 3, call.q)

\* pow has returned for the exponent 2^64 + 1, whose bits span two limbs, with
\* a result that is neither one nor the base
C23_Witness ==
    /\ Done("pow")
    /\ call.exp = <<1, 1>>
    /\ call.n = 0
    /\ call.q = 7
    /\ call.self = 3
    /\ ret = 5

\* row i of the stored triangle has exactly i + 1 entries, so that at(i, j)
\* and at(j, i) are defined, and they are equal
ShapeHolds(m) ==
    /\ \A i \in DOMAIN m[2] : Len(m[2][i]) = i
    /\ \A i \in 0..(size(m) - 1), j \in 0..(size(m) - 1) :
            SymmetricMatrix_at(m, i, j) = SymmetricMatrix_at(m, j, i)

\* the matrix the finished call has handed to its caller, if any
Obtained ==
    IF pc # "done" THEN {}
    ELSE IF call.fn = "try_from_vec" THEN (IF Len(ret) = 0 THEN {} ELSE {ret[1]})
    ELSE IF call.fn = "check" THEN (IF ret[1] = "Ok" THEN {call.m} ELSE {})
    ELSE IF call.fn \in {"from", "zero", "from_fn", "from_par_fn", "map", "from_blocks",
                         "add", "mul", "rand"}
         THEN (IF ret[1] = "SymmetricMatrix" THEN {ret} ELSE {})
    ELSE {}

\* C29: every SymmetricMatrix obtained through From<Vec<Vec<F>>>, zero, from_fn,
\* from_par_fn, map, from_blocks, try_from_vec, Add, Mul, rand, or
\* deserialize_with_mode followed by check, stores a lower triangle whose row i
\* has exactly i + 1 entries, so that at(i, j) and at(j, i) are defined and equal
C29_ShapeInvariant == \A m \in Obtained : ShapeHolds(m)

\* C30: try_from_vec gives back the matrix whose to_vec it is handed, whatever
\* the size, the empty matrix included, and gives None for a vector whose
\* length is not r * (r + 1) / 2 for any r
C30_TryFromVecInvertsToVec ==
    Done("try_from_vec") =>
        /\ \A m \in SymmetricMatrices : call.vec = to_vec(m) => ret = Some(m)
        /\ (\A r \in 0..Len(call.vec) : (r * (r + 1)) \div 2 # Len(call.vec)) => Len(ret) = 0

\* C21: decryption inverts encryption: for every secret key, every public key
\* generated from it, every plaintext and every randomness tuple,
\* sk.decrypt(pk.encrypt(m, r)).poly equals m.poly coefficient by coefficient
C21_DecryptInvertsEncrypt == Done("decrypt") => \A i \in 1..PolyN : ret[i] = call.m[i]

====
